---- MODULE Spec2Model ----
(***************************************************************************)
(* Model of the OAuth 2.0 authentication design of the repository:         *)
(* TokenManager (token_manager.py), OAuthService (oauth_service.py) and    *)
(* the /auth routes (routes/auth.py), all given in src/unnamed/part_002.   *)
(*                                                                         *)
(* Scheduling: every route is an `async def` served by one asyncio event   *)
(* loop.  TokenManager's methods contain no await, so each of them is one  *)
(* atomic step.  handle_callback awaits the code exchange, the user-info   *)
(* fetch and the user lookup; the model lets other requests run at each of *)
(* these awaits.  Time is counted in minutes.                              *)
(***************************************************************************)
EXTENDS Integers, Sequences, FiniteSets, TLC

\* ---------------------------------------------------------------- bounds
MaxRequests == 4    \* requests served and clock advances in one run
MaxApiRequests == 2 \* API calls the desktop client makes in one run

\* ------------------------------------------------------------- constants
ACCESS_TOKEN_LIFETIME == 60       \* timedelta(hours=1), in minutes
REFRESH_TOKEN_LIFETIME == 10080   \* timedelta(days=7), in minutes
\* Rotation switched off.
MutRotationOff == FALSE

REFRESH_TOKEN_ROTATION == TRUE
ALGORITHM == "HS256"
SECRET_KEY == "${JWT_SECRET_KEY}"

\* class TokenConfig, the configuration a TokenManager is constructed with.
TokenConfig ==
    [SECRET_KEY |-> SECRET_KEY,
     ALGORITHM |-> ALGORITHM,
     ACCESS_TOKEN_LIFETIME |-> ACCESS_TOKEN_LIFETIME,
     REFRESH_TOKEN_LIFETIME |-> REFRESH_TOKEN_LIFETIME,
     REFRESH_TOKEN_ROTATION |-> REFRESH_TOKEN_ROTATION]

\* Python's None; a record, so that it compares with tokens and payloads.
None == [none |-> TRUE]

\* ------------------------------------------------------------ variables
VARIABLES
    now,                   \* datetime.utcnow(), in minutes
    served,                \* requests served and clock advances so far
    tokenConfig,           \* TokenManager.config: the TokenConfig in force
    _blacklisted_tokens,   \* TokenManager._blacklisted_tokens: set of jti
    _refresh_token_store,  \* TokenManager._refresh_token_store: jti -> record
    nextJti,               \* uuid4 values drawn so far
    _state_store,          \* OAuthService._state_store: state -> record
    nextState,             \* state tokens drawn so far
    cb,                    \* the handle_callback calls that reached an await
    last,                  \* the operation that ran last and what it returned
    issued,                \* history: every token pair create_token_pair made
    created,               \* history: state -> provider and creation time
    presented,             \* history: state -> results of the state check
    calls,                 \* history: jti -> results of refresh_tokens calls
    revoked,               \* history: jti of the tokens revoke_refresh_token
                           \*   returned True for
    logged_out,            \* history: jti of the tokens blacklist_token took
    userStore,             \* useUserStore: accessToken and refreshToken
    requests,              \* the HTTP requests of the front end in flight
    messages,              \* messagesAtom
    isTyping,              \* isTypingAtom
    saveStatus,            \* Personality: saveStatus
    mounted,               \* WeChatLoginButton is mounted
    qrCode,                \* WeChatLoginButton: qrCode
    polling,               \* WeChatLoginButton: polling
    pollTimerRef,          \* WeChatLoginButton: pollTimerRef.current
    timers,                \* setTimeout and setInterval timers that are set:
                           \*   id -> callback and time left
    nextTimer              \* timer ids handed out so far

tmVars == <<tokenConfig, _blacklisted_tokens, _refresh_token_store, nextJti>>
osVars == <<_state_store, nextState, cb>>
histVars == <<issued, created, presented, calls, revoked, logged_out>>
feVars ==
    <<userStore, requests, messages, isTyping, saveStatus, mounted, qrCode,
      polling, pollTimerRef, timers, nextTimer>>
vars == <<now, served, tmVars, osVars, last, histVars, feVars>>

\* ------------------------------------------------------------------ jose
\* jwt.encode: the payload signed with a key.  The signature is modelled by
\* the key and algorithm that made it.
JwtEncode(payload, key, algorithm) ==
    [payload |-> payload, key |-> key, alg |-> algorithm]

\* A string that is not a JWT at all.
Malformed == [malformed |-> TRUE]

\* The same payload signed by somebody who does not hold SECRET_KEY.
Forge(token) == [token EXCEPT !.key = "attacker"]

\* jwt.decode that checks exp whatever the options say.
MutJwtDecodeVerifiesExp(token, key, algorithms, verify_exp) ==
    IF "payload" \notin DOMAIN token THEN None
    ELSE IF token.key # key \/ token.alg \notin algorithms THEN None
    ELSE IF token.payload.exp < now THEN None
    ELSE token.payload

\* jwt.decode: the payload, or None where jose raises JWTError (bad format,
\* bad signature, algorithm not allowed, exp < now unless verify_exp is off).
JwtDecode(token, key, algorithms, verify_exp) ==
    IF "payload" \notin DOMAIN token THEN None
    ELSE IF token.key # key \/ token.alg \notin algorithms THEN None
    ELSE IF verify_exp /\ token.payload.exp < now THEN None
    ELSE token.payload

\* ---------------------------------------------------------- TokenManager
\* uuid4() and secrets.token_urlsafe(32) are modelled as fresh values: the
\* n-th value drawn is n, and no value is drawn twice.
Uuid4(n) == n

\* int(timedelta.total_seconds())
TotalSeconds(minutes) == minutes * 60

\* The payload of create_refresh_token pasted into create_access_token.
MutCreateAccessTokenAsRefresh(user_id, additional_claims, token_id) ==
    LET expire == now + ACCESS_TOKEN_LIFETIME
        payload == [sub |-> user_id, type |-> "refresh", exp |-> expire,
                    iat |-> now, jti |-> token_id]
    IN JwtEncode(IF additional_claims # None
                 THEN additional_claims @@ payload ELSE payload,
                 SECRET_KEY, ALGORITHM)

CreateAccessToken(user_id, additional_claims, token_id) ==
    LET expire == now + ACCESS_TOKEN_LIFETIME
        payload == [sub |-> user_id, type |-> "access", exp |-> expire,
                    iat |-> now, jti |-> token_id]
    IN JwtEncode(IF additional_claims # None
                 THEN additional_claims @@ payload ELSE payload,
                 SECRET_KEY, ALGORITHM)

CreateRefreshToken(user_id, token_id) ==
    LET expire == now + REFRESH_TOKEN_LIFETIME
        payload == [sub |-> user_id, type |-> "refresh", exp |-> expire,
                    iat |-> now, jti |-> token_id]
    IN JwtEncode(payload, SECRET_KEY, ALGORITHM)

\* self._refresh_token_store[token_id] = {"user_id": ..., "revoked": False}
StoreRefreshToken(store, token_id, user_id) ==
    [j \in DOMAIN store \cup {token_id} |->
        IF j = token_id THEN [user_id |-> user_id, revoked |-> FALSE]
        ELSE store[j]]

\* A pair whose refresh token is made out for nobody.
MutCreateTokenPairNoSubject(user_id, n) ==
    [access_token |-> CreateAccessToken(user_id, None, Uuid4(n + 1)),
     refresh_token |-> CreateRefreshToken("", Uuid4(n + 2)),
     token_type |-> "Bearer",
     expires_in |-> TotalSeconds(ACCESS_TOKEN_LIFETIME)]

\* The dict create_token_pair returns, drawing the uuids n+1 and n+2.
CreateTokenPair(user_id, n) ==
    [access_token |-> CreateAccessToken(user_id, None, Uuid4(n + 1)),
     refresh_token |-> CreateRefreshToken(user_id, Uuid4(n + 2)),
     token_type |-> "Bearer",
     expires_in |-> TotalSeconds(ACCESS_TOKEN_LIFETIME)]

\* A record for the access token's jti as well.
MutStoreAfterPairBoth(store, user_id, n) ==
    StoreRefreshToken(StoreRefreshToken(store, Uuid4(n + 1), user_id),
                      Uuid4(n + 2), user_id)

\* What create_token_pair leaves in the refresh store.
StoreAfterPair(store, user_id, n) ==
    StoreRefreshToken(store, Uuid4(n + 2), user_id)

\* verify_access_token that tells the caller when the jti is blacklisted.
MutVerifyNamesCause(token) ==
    LET payload == JwtDecode(token, SECRET_KEY, {ALGORITHM}, TRUE)
    IN IF payload = None THEN None
       ELSE IF payload.type # "access" THEN None
       ELSE IF payload.jti \in _blacklisted_tokens
       THEN [invalid |-> "blacklisted"]
       ELSE payload

\* verify_access_token without the check of the type claim.
MutVerifyAnyType(token) ==
    LET payload == JwtDecode(token, SECRET_KEY, {ALGORITHM}, TRUE)
    IN IF payload = None THEN None
       ELSE IF payload.jti \in _blacklisted_tokens THEN None
       ELSE payload

VerifyAccessToken(token) ==
    LET payload == JwtDecode(token, SECRET_KEY, {ALGORITHM}, TRUE)
    IN IF payload = None THEN None
       ELSE IF payload.type # "access" THEN None
       ELSE IF payload.jti \in _blacklisted_tokens THEN None
       ELSE payload

\* refresh_tokens that also turns away a token whose pair's access token,
\* the uuid drawn just before its own, is blacklisted.
MutRefreshChecksBlacklist(token) ==
    LET payload == JwtDecode(token, SECRET_KEY, {ALGORITHM}, TRUE)
    IN /\ payload # None
       /\ payload.type = "refresh"
       /\ payload.jti \in DOMAIN _refresh_token_store
       /\ ~_refresh_token_store[payload.jti].revoked
       /\ payload.jti - 1 \notin _blacklisted_tokens

\* refresh_tokens with `if not stored` for `if not stored or revoked`.
MutRefreshAcceptsRevoked(token) ==
    LET payload == JwtDecode(token, SECRET_KEY, {ALGORITHM}, TRUE)
    IN /\ payload # None
       /\ payload.type = "refresh"
       /\ payload.jti \in DOMAIN _refresh_token_store

\* The checks of refresh_tokens: TRUE when it goes on to issue a pair.
RefreshAccepts(token) ==
    LET payload == JwtDecode(token, SECRET_KEY, {ALGORITHM}, TRUE)
    IN /\ payload # None
       /\ payload.type = "refresh"
       /\ payload.jti \in DOMAIN _refresh_token_store
       /\ ~_refresh_token_store[payload.jti].revoked

\* The assignment to stored["revoked"] left out.
MutMarkRevokedNone(store, token_id) == store

\* stored["revoked"] = True
MarkRevoked(store, token_id) ==
    [store EXCEPT ![token_id].revoked = TRUE]

\* The old record marked revoked whatever the configuration says.
MutRotateAlways(store, token_id) == MarkRevoked(store, token_id)

\* The refresh store after the rotation step of refresh_tokens.
Rotate(store, token_id) ==
    IF tokenConfig.REFRESH_TOKEN_ROTATION THEN MarkRevoked(store, token_id)
    ELSE store

\* The rotation step without the insert of create_refresh_token.
MutRotateNoIssue(store, token_id, user_id, n) == Rotate(store, token_id)

\* The refresh store after refresh_tokens went through: the rotation step,
\* then create_token_pair, with no await in between.
RotateAndIssue(store, token_id, user_id, n) ==
    StoreAfterPair(Rotate(store, token_id), user_id, n)

\* The tokens a client can present: the issued ones, the same payloads
\* signed with another key, and a string that is no JWT.
OwnAccess == {p.access_token : p \in issued}
OwnRefresh == {p.refresh_token : p \in issued}
Own == OwnAccess \cup OwnRefresh

\* The payloads of the issued tokens, signed with another key.
Forged == {Forge(t) : t \in Own}

Presentable == Own \cup Forged \cup {Malformed}

\* History of the refresh_tokens calls that presented an issued refresh
\* token: how many returned a pair and how many returned None.
CallsOf(token_id) ==
    IF token_id \in DOMAIN calls THEN calls[token_id]
    ELSE [ok |-> 0, invalid |-> 0]

Counted(token, field) ==
    IF token \notin OwnRefresh THEN calls
    ELSE LET token_id == token.payload.jti
         IN [j \in DOMAIN calls \cup {token_id} |->
                IF j = token_id
                THEN [CallsOf(token_id) EXCEPT ![field] = @ + 1]
                ELSE calls[j]]

\* TokenManager.create_token_pair called for a user id.
create_token_pair(user_id) ==
    LET pair == CreateTokenPair(user_id, nextJti)
    IN /\ UNCHANGED feVars
       /\ served < MaxRequests
       /\ served' = served + 1
       /\ _refresh_token_store' =
             StoreAfterPair(_refresh_token_store, user_id, nextJti)
       /\ nextJti' = nextJti + 2
       /\ issued' = issued \cup {pair}
       /\ last' = [op |-> "create_token_pair", arg |-> user_id,
                   result |-> pair]
       /\ UNCHANGED <<now, tokenConfig, _blacklisted_tokens, osVars, created,
                      presented, calls, revoked, logged_out>>

verify_access_token(token) ==
    /\ UNCHANGED feVars
    /\ served < MaxRequests
    /\ served' = served + 1
    /\ last' = [op |-> "verify_access_token", arg |-> token,
                result |-> VerifyAccessToken(token)]
    /\ UNCHANGED <<now, tmVars, osVars, histVars>>

\* POST /auth/refresh -> TokenManager.refresh_tokens
refresh_tokens(token) ==
    /\ UNCHANGED feVars
    /\ served < MaxRequests
    /\ served' = served + 1
    /\ IF RefreshAccepts(token)
       THEN LET payload == JwtDecode(token, SECRET_KEY, {ALGORITHM}, TRUE)
                user_id == payload.sub
                pair == CreateTokenPair(user_id, nextJti)
            IN /\ _refresh_token_store' =
                     RotateAndIssue(_refresh_token_store, payload.jti,
                                    user_id, nextJti)
               /\ nextJti' = nextJti + 2
               /\ issued' = issued \cup {pair}
               /\ calls' = Counted(token, "ok")
               /\ last' = [op |-> "refresh_tokens", arg |-> token,
                           result |-> pair]
       ELSE /\ calls' = Counted(token, "invalid")
            /\ last' = [op |-> "refresh_tokens", arg |-> token,
                        result |-> None]
            /\ UNCHANGED <<_refresh_token_store, nextJti, issued>>
    /\ UNCHANGED <<now, tokenConfig, _blacklisted_tokens, osVars, created,
                   presented, revoked, logged_out>>

revoke_refresh_token(token) ==
    LET payload == JwtDecode(token, SECRET_KEY, {ALGORITHM}, TRUE)
        found == payload # None /\ payload.jti \in DOMAIN _refresh_token_store
    IN /\ UNCHANGED feVars
       /\ served < MaxRequests
       /\ served' = served + 1
       /\ _refresh_token_store' =
             IF found THEN MarkRevoked(_refresh_token_store, payload.jti)
             ELSE _refresh_token_store
       /\ revoked' = IF found THEN revoked \cup {payload.jti} ELSE revoked
       /\ last' = [op |-> "revoke_refresh_token", arg |-> token,
                   result |-> [found |-> found]]
       /\ UNCHANGED <<now, tokenConfig, _blacklisted_tokens, nextJti, osVars,
                      issued, created, presented, calls, logged_out>>

\* The add to the blacklist left out.
MutBlacklistAddNone(blacklist, token_id) == blacklist

\* self._blacklisted_tokens.add(payload["jti"])
BlacklistAdd(blacklist, token_id) == blacklist \cup {token_id}

\* POST /auth/logout -> TokenManager.blacklist_token
blacklist_token(token) ==
    LET payload == JwtDecode(token, SECRET_KEY, {ALGORITHM}, FALSE)
    IN /\ UNCHANGED feVars
       /\ served < MaxRequests
       /\ served' = served + 1
       /\ _blacklisted_tokens' =
             IF payload # None
             THEN BlacklistAdd(_blacklisted_tokens, payload.jti)
             ELSE _blacklisted_tokens
       /\ logged_out' = IF payload # None
                        THEN logged_out \cup {payload.jti} ELSE logged_out
       /\ last' = [op |-> "blacklist_token", arg |-> token, result |-> None]
       /\ UNCHANGED <<now, tokenConfig, _refresh_token_store, nextJti, osVars,
                      issued, created, presented, calls, revoked>>

\* Time passes: up to the expiry of an access token issued now, just past
\* it, or just past the expiry of a refresh token issued now.
Tick ==
    /\ UNCHANGED feVars
    /\ served < MaxRequests
    /\ \E d \in {ACCESS_TOKEN_LIFETIME, ACCESS_TOKEN_LIFETIME + 1,
                  REFRESH_TOKEN_LIFETIME + 1} :
          now' = now + d
    /\ served' = served + 1
    /\ last' = [op |-> "tick", arg |-> None, result |-> None]
    /\ UNCHANGED <<tmVars, osVars, histVars>>

\* ---------------------------------------------------------- oauth_config
\* Text that goes into the authorization URL (client_id, auth_url, scopes,
\* redirect_uri, state) is a sequence of characters, so that urlencode is
\* modelled character by character.

\* OAuthConfig.redirect_uri default: "http://localhost:3000/auth/callback"
DEFAULT_REDIRECT_URI ==
    <<"h","t","t","p",":","/","/","l","o","c","a","l","h","o","s","t",
      ":","3","0","0","0","/","a","u","t","h","/","c","a","l","l","b",
      "a","c","k">>

OAuthConfig(provider, client_id, client_secret, auth_url, token_url, userinfo_url, scopes, redirect_uri) ==
    [provider |-> provider, client_id |-> client_id,
     client_secret |-> client_secret, auth_url |-> auth_url,
     token_url |-> token_url, userinfo_url |-> userinfo_url,
     scopes |-> scopes, redirect_uri |-> redirect_uri]

OAUTH_CONFIGS ==
    \* client_id "${GOOGLE_CLIENT_ID}"
    \* auth_url "https://accounts.google.com/o/oauth2/v2/auth"
    \* scopes "openid", "email", "profile"
    ("google" :> OAuthConfig("google",
        <<"$","{","G","O","O","G","L","E","_","C","L","I","E","N","T",
          "_","I","D","}">>,
        "${GOOGLE_CLIENT_SECRET}",
        <<"h","t","t","p","s",":","/","/","a","c","c","o","u","n","t",
          "s",".","g","o","o","g","l","e",".","c","o","m","/","o","/",
          "o","a","u","t","h","2","/","v","2","/","a","u","t","h">>,
        "https://oauth2.googleapis.com/token",
        "https://www.googleapis.com/oauth2/v3/userinfo",
        <<<<"o","p","e","n","i","d">>,
          <<"e","m","a","i","l">>,
          <<"p","r","o","f","i","l","e">>>>,
        DEFAULT_REDIRECT_URI))
    \* client_id "${GITHUB_CLIENT_ID}"
    \* auth_url "https://github.com/login/oauth/authorize"
    \* scopes "read:user", "user:email"
    @@ ("github" :> OAuthConfig("github",
        <<"$","{","G","I","T","H","U","B","_","C","L","I","E","N","T",
          "_","I","D","}">>,
        "${GITHUB_CLIENT_SECRET}",
        <<"h","t","t","p","s",":","/","/","g","i","t","h","u","b",".",
          "c","o","m","/","l","o","g","i","n","/","o","a","u","t","h",
          "/","a","u","t","h","o","r","i","z","e">>,
        "https://github.com/login/oauth/access_token",
        "https://api.github.com/user",
        <<<<"r","e","a","d",":","u","s","e","r">>,
          <<"u","s","e","r",":","e","m","a","i","l">>>>,
        DEFAULT_REDIRECT_URI))
    \* client_id "${SELF_HOSTED_CLIENT_ID}"
    \* auth_url "https://auth.pdns.local/oauth/authorize"
    \* scopes "openid", "profile", "email"
    @@ ("self_hosted" :> OAuthConfig("self_hosted",
        <<"$","{","S","E","L","F","_","H","O","S","T","E","D","_","C",
          "L","I","E","N","T","_","I","D","}">>,
        "${SELF_HOSTED_CLIENT_SECRET}",
        <<"h","t","t","p","s",":","/","/","a","u","t","h",".","p","d",
          "n","s",".","l","o","c","a","l","/","o","a","u","t","h","/",
          "a","u","t","h","o","r","i","z","e">>,
        "https://auth.pdns.local/oauth/token",
        "https://auth.pdns.local/userinfo",
        <<<<"o","p","e","n","i","d">>,
          <<"p","r","o","f","i","l","e">>,
          <<"e","m","a","i","l">>>>,
        DEFAULT_REDIRECT_URI))
    \* client_id "${WECHAT_APP_ID}"
    \* auth_url "https://open.weixin.qq.com/connect/qrconnect"
    \* scopes "snsapi_login"
    \* redirect_uri "http://localhost:3000/auth/callback/wechat"
    @@ ("wechat" :> OAuthConfig("wechat",
        <<"$","{","W","E","C","H","A","T","_","A","P","P","_","I","D",
          "}">>,
        "${WECHAT_APP_SECRET}",
        <<"h","t","t","p","s",":","/","/","o","p","e","n",".","w","e",
          "i","x","i","n",".","q","q",".","c","o","m","/","c","o","n",
          "n","e","c","t","/","q","r","c","o","n","n","e","c","t">>,
        "https://api.weixin.qq.com/sns/oauth2/access_token",
        "https://api.weixin.qq.com/sns/userinfo",
        <<<<"s","n","s","a","p","i","_","l","o","g","i","n">>>>,
        <<"h","t","t","p",":","/","/","l","o","c","a","l","h","o","s",
          "t",":","3","0","0","0","/","a","u","t","h","/","c","a","l",
          "l","b","a","c","k","/","w","e","c","h","a","t">>))
    \* client_id "${ALIPAY_APP_ID}"
    \* auth_url "https://openauth.alipay.com/oauth2/publicAppAuthorize.htm"
    \* scopes "auth_user"
    \* redirect_uri "http://localhost:3000/auth/callback/alipay"
    @@ ("alipay" :> OAuthConfig("alipay",
        <<"$","{","A","L","I","P","A","Y","_","A","P","P","_","I","D",
          "}">>,
        "${ALIPAY_APP_PRIVATE_KEY}",
        <<"h","t","t","p","s",":","/","/","o","p","e","n","a","u","t",
          "h",".","a","l","i","p","a","y",".","c","o","m","/","o","a",
          "u","t","h","2","/","p","u","b","l","i","c","A","p","p","A",
          "u","t","h","o","r","i","z","e",".","h","t","m">>,
        "https://openapi.alipay.com/gateway.do",
        "https://openapi.alipay.com/userinfo/share",
        <<<<"a","u","t","h","_","u","s","e","r">>>>,
        <<"h","t","t","p",":","/","/","l","o","c","a","l","h","o","s",
          "t",":","3","0","0","0","/","a","u","t","h","/","c","a","l",
          "l","b","a","c","k","/","a","l","i","p","a","y">>))
    \* client_id "${QQ_APP_ID}"
    \* auth_url "https://graph.qq.com/oauth2.0/authorize"
    \* scopes "get_user_info"
    \* redirect_uri "http://localhost:3000/auth/callback/qq"
    @@ ("qq" :> OAuthConfig("qq",
        <<"$","{","Q","Q","_","A","P","P","_","I","D","}">>,
        "${QQ_APP_KEY}",
        <<"h","t","t","p","s",":","/","/","g","r","a","p","h",".","q",
          "q",".","c","o","m","/","o","a","u","t","h","2",".","0","/",
          "a","u","t","h","o","r","i","z","e">>,
        "https://graph.qq.com/oauth2.0/token",
        "https://graph.qq.com/user/get_user_info",
        <<<<"g","e","t","_","u","s","e","r","_","i","n","f","o">>>>,
        <<"h","t","t","p",":","/","/","l","o","c","a","l","h","o","s",
          "t",":","3","0","0","0","/","a","u","t","h","/","c","a","l",
          "l","b","a","c","k","/","q","q">>))
    \* client_id "${DINGTALK_APP_KEY}"
    \* auth_url "https://oapi.dingtalk.com/connect/qrconnect"
    \* scopes "snsapi"
    \* redirect_uri "http://localhost:3000/auth/callback/dingtalk"
    @@ ("dingtalk" :> OAuthConfig("dingtalk",
        <<"$","{","D","I","N","G","T","A","L","K","_","A","P","P","_",
          "K","E","Y","}">>,
        "${DINGTALK_APP_SECRET}",
        <<"h","t","t","p","s",":","/","/","o","a","p","i",".","d","i",
          "n","g","t","a","l","k",".","c","o","m","/","c","o","n","n",
          "e","c","t","/","q","r","c","o","n","n","e","c","t">>,
        "https://oapi.dingtalk.com/sns/gettoken",
        "https://oapi.dingtalk.com/sns/getuserinfo",
        <<<<"s","n","s","a","p","i">>>>,
        <<"h","t","t","p",":","/","/","l","o","c","a","l","h","o","s",
          "t",":","3","0","0","0","/","a","u","t","h","/","c","a","l",
          "l","b","a","c","k","/","d","i","n","g","t","a","l","k">>))

\* ---------------------------------------------------------- urllib.parse
\* quote_plus leaves these characters as they are.
Unreserved ==
    {"a","b","c","d","e","f","g","h","i","j","k","l","m","n","o","p","q",
     "r","s","t","u","v","w","x","y","z",
     "A","B","C","D","E","F","G","H","I","J","K","L","M","N","O","P","Q",
     "R","S","T","U","V","W","X","Y","Z",
     "0","1","2","3","4","5","6","7","8","9","_",".","-","~"}

\* The two hex digits of the other characters that occur.
PercentCode ==
    ("$" :> <<"2","4">>) @@ ("{" :> <<"7","B">>) @@ ("}" :> <<"7","D">>)
    @@ (":" :> <<"3","A">>) @@ ("/" :> <<"2","F">>) @@ ("=" :> <<"3","D">>)
    @@ ("&" :> <<"2","6">>) @@ ("?" :> <<"3","F">>) @@ ("%" :> <<"2","5">>)
    @@ ("+" :> <<"2","B">>)

QuoteChar(c) ==
    IF c \in Unreserved THEN <<c>>
    ELSE IF c = " " THEN <<"+">>
    ELSE <<"%">> \o PercentCode[c]

RECURSIVE QuotePlus(_)
QuotePlus(s) ==
    IF s = <<>> THEN <<>> ELSE QuoteChar(Head(s)) \o QuotePlus(Tail(s))

\* sep.join(parts)
RECURSIVE Join(_, _)
Join(parts, sep) ==
    IF parts = <<>> THEN <<>>
    ELSE IF Len(parts) = 1 THEN parts[1]
    ELSE parts[1] \o sep \o Join(Tail(parts), sep)

\* urlencode(params), params being the dict's items in insertion order.
UrlEncode(params) ==
    Join([i \in 1..Len(params) |->
            QuotePlus(params[i][1]) \o <<"=">> \o QuotePlus(params[i][2])],
         <<"&">>)

\* needle in hay
Contains(hay, needle) ==
    \E i \in 1..(Len(hay) - Len(needle) + 1) :
        SubSeq(hay, i, i + Len(needle) - 1) = needle

\* ---------------------------------------------------------- OAuthService
\* No state argument: Python's None and "" are both falsy in `if not state`.
NoState == <<>>

\* secrets.token_urlsafe(32): text over the URL-safe base64 alphabet.  The
\* n-th token drawn is unlike every other token drawn.
Digit == <<"1","2","3","4","5","6","7","8","9">>
TokenUrlsafe(n) == <<"t","k","-","_",Digit[n]>>

\* A state value that a caller of get_authorization_url passes in itself.
CallerState == <<"m","y"," ","s","t","a","t","e">>

\* The provider ids requests arrive with; wechat_mp is a member of
\* OAuthProvider that has no entry in OAUTH_CONFIGS.
RequestProviders == {"google", "github", "wechat_mp"}

\* A lookup that falls back to the first provider's configuration.
MutConfigOfFallback(provider) ==
    IF provider \in DOMAIN OAUTH_CONFIGS THEN OAUTH_CONFIGS[provider]
    ELSE OAUTH_CONFIGS["google"]

\* self.configs.get(provider)
ConfigOf(provider) ==
    IF provider \in DOMAIN OAUTH_CONFIGS THEN OAUTH_CONFIGS[provider] ELSE None

\* The params dict without its state entry.
MutAuthParamsNoState(config, state) ==
    <<<<<<"c","l","i","e","n","t","_","i","d">>, config.client_id>>,
      <<<<"r","e","d","i","r","e","c","t","_","u","r","i">>,
        config.redirect_uri>>,
      <<<<"r","e","s","p","o","n","s","e","_","t","y","p","e">>,
        <<"c","o","d","e">>>>,
      <<<<"s","c","o","p","e">>, Join(config.scopes, <<" ">>)>>>>

\* The params dict of get_authorization_url.
AuthParams(config, state) ==
    <<<<<<"c","l","i","e","n","t","_","i","d">>, config.client_id>>,
      <<<<"r","e","d","i","r","e","c","t","_","u","r","i">>, config.redirect_uri>>,
      <<<<"r","e","s","p","o","n","s","e","_","t","y","p","e">>, <<"c","o","d","e">>>>,
      <<<<"s","c","o","p","e">>, Join(config.scopes, <<" ">>)>>,
      <<<<"s","t","a","t","e">>, state>>>>

\* f"{config.auth_url}?{urlencode(params)}"
AuthorizationUrl(config, state) ==
    config.auth_url \o <<"?">> \o UrlEncode(AuthParams(config, state))

\* self._state_store[state] = {"provider": provider}
PutState(store, state, provider) ==
    [s \in DOMAIN store \cup {state} |->
        IF s = state THEN [provider |-> provider] ELSE store[s]]

\* _state_store.get(state) for _state_store.pop(state).
MutPopStateKeeps(store, state) == store

\* self._state_store.pop(state): the store that is left.
PopState(store, state) ==
    [s \in DOMAIN store \ {state} |-> store[s]]

\* A state is drawn and stored whatever the caller passed.
MutNotStateAlways(state) == TRUE

\* `if not state`: no state was passed, or an empty one.
NotState(state) == state = NoState

\* GET /auth/login/{provider} -> OAuthService.get_authorization_url
get_authorization_url(provider, state) ==
    LET config == ConfigOf(provider)
        fresh == TokenUrlsafe(nextState + 1)
    IN /\ UNCHANGED feVars
       /\ served < MaxRequests
       /\ served' = served + 1
       /\ IF config = None
          THEN /\ last' = [op |-> "get_authorization_url",
                           arg |-> [provider |-> provider, state |-> state],
                           result |-> [error |-> "Unknown OAuth provider"]]
               /\ UNCHANGED <<now, tmVars, osVars, histVars>>
          ELSE IF NotState(state)
          THEN /\ nextState' = nextState + 1
               /\ _state_store' = PutState(_state_store, fresh, provider)
               /\ created' = (fresh :> [provider |-> provider, at |-> now])
                               @@ created
               /\ last' = [op |-> "get_authorization_url",
                           arg |-> [provider |-> provider, state |-> state],
                           result |-> [url |-> AuthorizationUrl(config, fresh)]]
               /\ UNCHANGED <<now, tmVars, cb, issued, presented, calls,
                              revoked, logged_out>>
          ELSE /\ last' = [op |-> "get_authorization_url",
                           arg |-> [provider |-> provider, state |-> state],
                           result |-> [url |-> AuthorizationUrl(config, state)]]
               /\ UNCHANGED <<now, tmVars, osVars, histVars>>

\* ------------------------------------------------------- /auth/callback
NoCode == ""
NoError == ""

\* Local user ids that _find_or_create_user can come back with.
UserIds == {41, 42}

\* str(user.id)
StrOf(id) == ToString(id)

\* The call stays at the await it was at: the request is made again.
MutCbAtStays(i, pc) == cb

\* The i-th handle_callback call moved to another await, or finished.
CbAt(i, pc) == [cb EXCEPT ![i].pc = pc]

\* The state check of handle_callback.
StateAccepted(store, state) == state \in DOMAIN store

\* The provider comparison left out.
MutProviderMismatchNever(stored_state, provider) == FALSE

\* stored_state.get("provider") != provider
ProviderMismatch(stored_state, provider) == stored_state.provider # provider

\* History of the state checks made for a state value: how many callbacks
\* passed the check and how many were turned away by it.
ChecksOf(state) ==
    IF state \in DOMAIN presented THEN presented[state]
    ELSE [passed |-> 0, invalid |-> 0]

Checked(state, field) ==
    [s \in DOMAIN presented \cup {state} |->
        IF s = state THEN [ChecksOf(state) EXCEPT ![field] = @ + 1]
        ELSE presented[s]]

\* The route rejecting error and code left out.
MutRouteCheckNone(code, error) == ""

\* The two checks of the oauth_callback route, made before handle_callback
\* is called: `if error` and `if not code`.  "" when both pass.
RouteCheck(code, error) ==
    IF error # NoError THEN "OAuth error"
    ELSE IF code = NoCode THEN "Missing authorization code"
    ELSE ""

\* GET /auth/callback: oauth_callback and handle_callback up to its first
\* await.  An exception ends the request and is what the request returns.
oauth_callback(provider, code, state, error) ==
    LET arg == [provider |-> provider, code |-> code, state |-> state,
                error |-> error]
        fail(reason) ==
            /\ last' = [op |-> "oauth_callback", arg |-> arg,
                        result |-> [error |-> reason]]
            /\ UNCHANGED cb
    IN /\ UNCHANGED feVars
       /\ served < MaxRequests
       /\ served' = served + 1
       /\ IF RouteCheck(code, error) # ""
          THEN /\ fail(RouteCheck(code, error))
               /\ UNCHANGED <<_state_store, presented>>
          ELSE IF ~StateAccepted(_state_store, state)
          THEN /\ fail("Invalid state parameter")
               /\ presented' = Checked(state, "invalid")
               /\ UNCHANGED _state_store
          ELSE /\ _state_store' = PopState(_state_store, state)
               /\ presented' = Checked(state, "passed")
               /\ IF ProviderMismatch(_state_store[state], provider)
                  THEN fail("Provider mismatch")
                  ELSE IF ConfigOf(provider) = None
                  THEN fail("Unknown OAuth provider")
                  ELSE /\ cb' = Append(cb, [provider |-> provider,
                                            state |-> state,
                                            pc |-> "exchange"])
                       /\ last' = [op |-> "oauth_callback", arg |-> arg,
                                   result |-> None]
       /\ UNCHANGED <<now, tmVars, nextState, issued, created, calls,
                      revoked, logged_out>>

\* What the provider's token endpoint can answer: an error status, a body
\* with an access_token, or a body without one.
ExchangeResponses ==
    {[ok |-> FALSE, has_token |-> FALSE],
     [ok |-> TRUE, has_token |-> TRUE],
     [ok |-> TRUE, has_token |-> FALSE]}

\* _exchange_code_for_token returns; handle_callback goes on to
\* token_data["access_token"] and the user-info request.
exchange_code_for_token(i) ==
    /\ UNCHANGED feVars
    /\ i \in 1..Len(cb)
    /\ cb[i].pc = "exchange"
    /\ \E response \in ExchangeResponses :
         LET reason == IF ~response.ok THEN "Token exchange failed"
                       ELSE IF ~response.has_token THEN "KeyError"
                       ELSE ""
         IN /\ cb' = CbAt(i, IF reason = "" THEN "userinfo" ELSE "done")
            /\ last' = [op |-> "exchange_code_for_token", arg |-> cb[i],
                        result |-> [error |-> reason]]
    /\ UNCHANGED <<now, served, tmVars, _state_store, nextState, histVars>>

\* _get_user_info returns.
get_user_info(i) ==
    /\ UNCHANGED feVars
    /\ i \in 1..Len(cb)
    /\ cb[i].pc = "userinfo"
    /\ \E ok \in BOOLEAN :
         /\ cb' = CbAt(i, IF ok THEN "resolve" ELSE "done")
         /\ last' = [op |-> "get_user_info", arg |-> cb[i],
                     result |-> [error |-> IF ok THEN ""
                                           ELSE "Failed to get user info"]]
    /\ UNCHANGED <<now, served, tmVars, _state_store, nextState, histVars>>

\* The dict handle_callback returns: {"user": user.to_dict(), **tokens}
CallbackResult(user_id, tokens) ==
    [user |-> [id |-> user_id],
     access_token |-> tokens.access_token,
     refresh_token |-> tokens.refresh_token,
     token_type |-> tokens.token_type,
     expires_in |-> tokens.expires_in]

\* _find_or_create_user returns a user (its body is left to the embedding
\* application) and handle_callback issues the token pair, or the lookup
\* raises.
find_or_create_user(i) ==
    /\ UNCHANGED feVars
    /\ i \in 1..Len(cb)
    /\ cb[i].pc = "resolve"
    /\ cb' = CbAt(i, "done")
    /\ \/ \E user_id \in UserIds :
            LET tokens == CreateTokenPair(StrOf(user_id), nextJti)
            IN /\ _refresh_token_store' =
                     StoreAfterPair(_refresh_token_store, StrOf(user_id),
                                    nextJti)
               /\ nextJti' = nextJti + 2
               /\ issued' = issued \cup {tokens}
               /\ last' = [op |-> "handle_callback", arg |-> cb[i],
                           result |-> CallbackResult(user_id, tokens)]
       \/ /\ last' = [op |-> "handle_callback", arg |-> cb[i],
                      result |-> [error |-> "user lookup failed"]]
          /\ UNCHANGED <<_refresh_token_store, nextJti, issued>>
    /\ UNCHANGED <<now, tokenConfig, served, _blacklisted_tokens, _state_store, nextState,
                   created, presented, calls, revoked, logged_out>>

\* The request is cancelled while handle_callback waits at one of its
\* awaits: CancelledError ends the call there, and no handler of it puts
\* anything back.
cancel(i) ==
    /\ UNCHANGED feVars
    /\ i \in 1..Len(cb)
    /\ cb[i].pc # "done"
    /\ cb' = CbAt(i, "done")
    /\ last' = [op |-> "cancel", arg |-> cb[i],
                result |-> [error |-> "CancelledError"]]
    /\ UNCHANGED <<now, served, tmVars, _state_store, nextState, histVars>>

\* ---------------------------------------------------------- specification
\* The state after construction, for a TokenManager constructed with the
\* configuration c.
\* The three messages messagesAtom starts with (atoms.js).
INITIAL_MESSAGES ==
    <<[id |-> 1, type |-> "companion", content |-> "greeting"],
      [id |-> 2, type |-> "user", content |-> "tired today"],
      [id |-> 3, type |-> "companion", content |-> "want to share?"]>>

InitWith(c) ==
    /\ tokenConfig = c
    /\ now = 0
    /\ served = 0
    /\ _blacklisted_tokens = {}
    /\ _refresh_token_store = <<>>
    /\ nextJti = 0
    /\ _state_store = <<>>
    /\ nextState = 0
    /\ cb = <<>>
    /\ last = [op |-> "init", arg |-> None, result |-> None]
    /\ issued = {}
    /\ created = <<>>
    /\ presented = <<>>
    /\ calls = <<>>
    /\ revoked = {}
    /\ logged_out = {}
    /\ userStore = [accessToken |-> None, refreshToken |-> None]
    /\ requests = <<>>
    /\ messages = INITIAL_MESSAGES
    /\ isTyping = FALSE
    /\ saveStatus = "idle"
    /\ mounted = TRUE
    /\ qrCode = None
    /\ polling = FALSE
    /\ pollTimerRef = None
    /\ timers = <<>>
    /\ nextTimer = 0

\* TokenManager(TokenConfig): the configuration of the source.
Init == InitWith(TokenConfig)

Login == \E provider \in RequestProviders, state \in {NoState, CallerState} :
            get_authorization_url(provider, state)

Callback ==
    \E provider \in RequestProviders, code \in {NoCode, "c1"},
       state \in DOMAIN created \cup {CallerState},
       error \in {NoError, "access_denied"} :
        oauth_callback(provider, code, state, error)

Exchange == \E i \in 1..Len(cb) : exchange_code_for_token(i)
UserInfo == \E i \in 1..Len(cb) : get_user_info(i)
Resolve == \E i \in 1..Len(cb) : find_or_create_user(i)
Cancel == \E i \in 1..Len(cb) : cancel(i)

\* The login flow: OAuthService behind the /auth/login and /auth/callback
\* routes, issuing token pairs through TokenManager.create_token_pair.
Next ==
    \/ Login
    \/ Callback
    \/ Exchange
    \/ UserInfo
    \/ Resolve
    \/ Cancel
    \/ Tick

Spec == Init /\ [][Next]_vars

\* The login flow with its scheduling: the event loop resumes an invocation
\* of handle_callback when the awaited answer is there.  Whether a login or
\* a callback request ever arrives is up to the clients, and nothing in the
\* code runs on a timer.
SpecLive ==
    /\ Init
    /\ [][Next]_vars
    /\ WF_vars(Exchange)
    /\ WF_vars(UserInfo)
    /\ WF_vars(Resolve)

IssuePair == \E user_id \in UserIds : create_token_pair(StrOf(user_id))
Verify == \E token \in Presentable : verify_access_token(token)
Refresh == \E token \in Presentable : refresh_tokens(token)
Revoke == \E token \in Presentable : revoke_refresh_token(token)
Logout == \E token \in Presentable : blacklist_token(token)

\* TokenManager on its own: its methods called in any order, on any
\* presentable token.  The login flow reaches TokenManager only through
\* create_token_pair, so every state of TokenManager that the whole program
\* reaches is reached here.
NextTM ==
    \/ IssuePair
    \/ Verify
    \/ Refresh
    \/ Revoke
    \/ Logout
    \/ Tick

SpecTM == Init /\ [][NextTM]_vars

\* TokenManager constructed with rotation as configured, or with a
\* configuration that switches REFRESH_TOKEN_ROTATION off.
InitRotation ==
    \E rotation \in BOOLEAN :
        InitWith([TokenConfig EXCEPT !.REFRESH_TOKEN_ROTATION =
                     rotation /\ REFRESH_TOKEN_ROTATION])

SpecRotation == InitRotation /\ [][NextTM]_vars

\* ------------------------------------------------------ provider adapters
\* The services of the Chinese providers (wechat_service.py,
\* alipay_service.py, qq_service.py, dingtalk_service.py).  What they compute
\* from their arguments and from the provider's answers is given as
\* operators; an action applies one of them to inputs drawn from small sets
\* and leaves the result in `last`.
WECHAT_API_BASE ==
    <<"h","t","t","p","s",":","/","/","a","p","i",".","w","e","i","x",
      "i","n",".","q","q",".","c","o","m">>
QQ_API_BASE ==
    <<"h","t","t","p","s",":","/","/","g","r","a","p","h",".","q","q",
      ".","c","o","m">>
DINGTALK_API_BASE ==
    <<"h","t","t","p","s",":","/","/","o","a","p","i",".","d","i","n",
      "g","t","a","l","k",".","c","o","m">>

\* _generate_state(): the md5 hex digest of "{time}-{app_id}", shown by
\* the first 8 of its 32 digits.
GenerateState == <<"9","e","1","0","7","d","9","d">>

\* `state or self._generate_state()`
StateOr(state, generated) == IF state # NoState THEN state ELSE generated

\* urlencode(query) called with a str, as AlipayOAuthService does: an empty
\* str has no pairs and gives ""; any other str raises TypeError ("not a
\* valid non-string sequence or mapping object").
UrlEncodeStr(query) ==
    IF query = <<>> THEN [text |-> <<>>] ELSE [error |-> "TypeError"]

WeChatAuthorizationUrl(app_id, redirect_uri, state, style, href) ==
    LET params ==
          <<<<<<"a","p","p","i","d">>, app_id>>,
            <<<<"r","e","d","i","r","e","c","t","_","u","r","i">>, redirect_uri>>,
            <<<<"r","e","s","p","o","n","s","e","_","t","y","p","e">>, <<"c","o","d","e">>>>,
            <<<<"s","c","o","p","e">>, <<"s","n","s","a","p","i","_","l","o","g","i","n">>>>,
            <<<<"s","t","a","t","e">>, StateOr(state, GenerateState)>>>>
          \o (IF style # <<>> THEN <<<<<<"s","t","y","l","e">>, style>>>>
              ELSE <<>>)
          \o (IF href # <<>> THEN <<<<<<"h","r","e","f">>, href>>>> ELSE <<>>)
    IN [url |-> WECHAT_API_BASE
                \o <<"/","c","o","n","n","e","c","t","/","q","r","c","o",
                  "n","n","e","c","t","?">>
                \o UrlEncode(params)]

\* The f-string of AlipayOAuthService.get_authorization_url; the values go
\* into it as they are, but for redirect_uri, which goes through urlencode.
AlipayAuthorizationUrl(app_id, redirect_uri, state) ==
    LET encoded == UrlEncodeStr(redirect_uri)
    IN IF "error" \in DOMAIN encoded THEN encoded
       ELSE [url |->
               <<"h","t","t","p","s",":","/","/","o","p","e","n","a",
                 "u","t","h",".","a","l","i","p","a","y",".","c","o",
                 "m","/","o","a","u","t","h","2","/","p","u","b","l",
                 "i","c","A","p","p","A","u","t","h","o","r","i","z",
                 "e",".","h","t","m","?">>
               \o <<"a","p","p","_","i","d","=">> \o app_id
               \o <<"&","r","e","d","i","r","e","c","t","_","u","r","i",
                 "=">>
               \o encoded.text
               \o <<"&","s","c","o","p","e","=","a","u","t","h","_","u",
                 "s","e","r","&","s","t","a","t","e","=">>
               \o state]

QQAuthorizationUrl(app_id, redirect_uri, state) ==
    LET params ==
          <<<<<<"c","l","i","e","n","t","_","i","d">>, app_id>>,
            <<<<"r","e","s","p","o","n","s","e","_","t","y","p","e">>, <<"c","o","d","e">>>>,
            <<<<"r","e","d","i","r","e","c","t","_","u","r","i">>, redirect_uri>>,
            <<<<"s","c","o","p","e">>, <<"g","e","t","_","u","s","e","r","_","i","n","f","o">>>>,
            <<<<"s","t","a","t","e">>, StateOr(state, GenerateState)>>>>
    IN [url |-> QQ_API_BASE
                \o <<"/","o","a","u","t","h","2",".","0","/","a","u","t",
                  "h","o","r","i","z","e","?">>
                \o UrlEncode(params)]

DingTalkAuthorizationUrl(app_key, redirect_uri, state) ==
    LET params ==
          <<<<<<"a","p","p","k","e","y">>, app_key>>,
            <<<<"r","e","s","p","o","n","s","e","_","t","y","p","e">>, <<"c","o","d","e">>>>,
            <<<<"s","c","o","p","e">>, <<"s","n","s","a","p","i">>>>,
            <<<<"r","e","d","i","r","e","c","t","_","u","r","i">>, redirect_uri>>,
            <<<<"s","t","a","t","e">>, StateOr(state, GenerateState)>>>>
    IN [url |-> DINGTALK_API_BASE
                \o <<"/","c","o","n","n","e","c","t","/","q","r","c","o",
                  "n","n","e","c","t","?">>
                \o UrlEncode(params)]

\* The redirect URIs and states the adapters are called with.
RedirectUris == {DEFAULT_REDIRECT_URI, <<>>}
AdapterStates == {NoState, CallerState, TokenUrlsafe(1)}

\* What an adapter call leaves behind: its result, and nothing else.
Call(op, arg, result) == [op |-> op, arg |-> arg, result |-> result]

\* The URL of OAuthService.get_authorization_url for a configured provider;
\* the state is the caller's, or the one the service has just drawn.
oauth_authorization_url(provider, state) ==
    /\ UNCHANGED feVars
    /\ UNCHANGED <<now, served, tmVars, osVars, histVars>>
    /\ last' = Call("OAuthService.get_authorization_url",
             [client_id |-> OAUTH_CONFIGS[provider].client_id,
              redirect_uri |-> OAUTH_CONFIGS[provider].redirect_uri,
              state |-> state],
             [url |-> AuthorizationUrl(OAUTH_CONFIGS[provider], state)])

wechat_get_authorization_url(redirect_uri, state) ==
    LET app_id == OAUTH_CONFIGS["wechat"].client_id
    IN /\ UNCHANGED feVars
       /\ UNCHANGED <<now, served, tmVars, osVars, histVars>>
       /\ last' = Call("WeChatOAuthService.get_authorization_url",
                [client_id |-> app_id, redirect_uri |-> redirect_uri,
                 state |-> state],
                WeChatAuthorizationUrl(app_id, redirect_uri, state,
                                       <<"b","l","a","c","k">>, <<>>))

alipay_get_authorization_url(redirect_uri, state) ==
    LET app_id == OAUTH_CONFIGS["alipay"].client_id
    IN /\ UNCHANGED feVars
       /\ UNCHANGED <<now, served, tmVars, osVars, histVars>>
       /\ last' = Call("AlipayOAuthService.get_authorization_url",
                [client_id |-> app_id, redirect_uri |-> redirect_uri,
                 state |-> state],
                AlipayAuthorizationUrl(app_id, redirect_uri, state))

qq_get_authorization_url(redirect_uri, state) ==
    LET app_id == OAUTH_CONFIGS["qq"].client_id
    IN /\ UNCHANGED feVars
       /\ UNCHANGED <<now, served, tmVars, osVars, histVars>>
       /\ last' = Call("QQOAuthService.get_authorization_url",
                [client_id |-> app_id, redirect_uri |-> redirect_uri,
                 state |-> state],
                QQAuthorizationUrl(app_id, redirect_uri, state))

dingtalk_get_authorization_url(redirect_uri, state) ==
    LET app_key == OAUTH_CONFIGS["dingtalk"].client_id
    IN /\ UNCHANGED feVars
       /\ UNCHANGED <<now, served, tmVars, osVars, histVars>>
       /\ last' = Call("DingTalkOAuthService.get_authorization_url",
                [client_id |-> app_key, redirect_uri |-> redirect_uri,
                 state |-> state],
                DingTalkAuthorizationUrl(app_key, redirect_uri, state))

OAuthUrl ==
    \E provider \in DOMAIN OAUTH_CONFIGS, state \in AdapterStates \ {NoState} :
        oauth_authorization_url(provider, state)
WeChatUrl ==
    \E redirect_uri \in RedirectUris, state \in AdapterStates :
        wechat_get_authorization_url(redirect_uri, state)
AlipayUrl ==
    \E redirect_uri \in RedirectUris, state \in AdapterStates :
        alipay_get_authorization_url(redirect_uri, state)
QQUrl ==
    \E redirect_uri \in RedirectUris, state \in AdapterStates :
        qq_get_authorization_url(redirect_uri, state)
DingTalkUrl ==
    \E redirect_uri \in RedirectUris, state \in AdapterStates :
        dingtalk_get_authorization_url(redirect_uri, state)

\* A JSON object is a function from its keys; d.get(key, default).
EmptyDict == <<>>
Get(d, key, default) == IF key \in DOMAIN d THEN d[key] ELSE default

\* The characters of a parameter name in code-point order, which is the
\* order sorted() compares str keys by.
CodePoints ==
    <<"_","a","b","c","d","e","f","g","h","i","j","k","l","m","n","o",
      "p","q","r","s","t","u","v","w","x","y","z">>
Ord(c) == CHOOSE i \in 1..Len(CodePoints) : CodePoints[i] = c

\* a < b for two str
StrLess(a, b) ==
    \E i \in 1..(Len(b)) :
        /\ \A j \in 1..(i - 1) : j <= Len(a) /\ a[j] = b[j]
        /\ \/ i = Len(a) + 1
           \/ i <= Len(a) /\ Ord(a[i]) < Ord(b[i])

\* sorted(params.items(), key=lambda x: x[0]), as the sequence of the keys
RECURSIVE SortedKeys(_)
SortedKeys(keys) ==
    IF keys = {} THEN <<>>
    ELSE LET first == CHOOSE k \in keys :
                        \A other \in keys \ {k} : StrLess(k, other)
         IN <<first>> \o SortedKeys(keys \ {first})

\* [x for x in items if keep(x)]
RECURSIVE Filter(_, _)
Filter(items, keep) ==
    IF items = <<>> THEN <<>>
    ELSE (IF keep[Head(items)] THEN <<Head(items)>> ELSE <<>>)
         \o Filter(Tail(items), keep)

MutBuildSignStringKeepsEmpty(params) ==
    LET sorted_params == SortedKeys(DOMAIN params)
    IN Join([i \in 1..Len(sorted_params) |->
               sorted_params[i] \o <<"=">> \o params[sorted_params[i]]],
            <<"&">>)

\* AlipayOAuthService._build_sign_string; a value is a str, and `if v`
\* drops the empty ones.
BuildSignString(params) ==
    LET sorted_params == SortedKeys(DOMAIN params)
        kept == Filter(sorted_params,
                       [k \in DOMAIN params |-> params[k] # <<>>])
    IN Join([i \in 1..Len(kept) |->
               kept[i] \o <<"=">> \o params[kept[i]]],
            <<"&">>)

\* _sign: the base64 text of the RSA-SHA256 signature of the string, kept
\* as the string it signs.
Sign(sign_string) == [rsa2 |-> sign_string]

\* _get_timestamp(): datetime.now() as "%Y-%m-%d %H:%M:%S"
Timestamp ==
    <<"2","0","2","4","-","0","1","-","0","1"," ","0","0",":","0","0",
      ":","0","0">>

\* The params dict of AlipayOAuthService.handle_callback
CallbackParams(app_id, code) ==
    (<<"a","p","p","_","i","d">> :> app_id)
    @@ (<<"m","e","t","h","o","d">> :>
          <<"a","l","i","p","a","y",".","s","y","s","t","e","m",".","o",
            "a","u","t","h",".","t","o","k","e","n">>)
    @@ (<<"c","h","a","r","s","e","t">> :> <<"U","T","F","-","8">>)
    @@ (<<"s","i","g","n","_","t","y","p","e">> :> <<"R","S","A","2">>)
    @@ (<<"t","i","m","e","s","t","a","m","p">> :> Timestamp)
    @@ (<<"v","e","r","s","i","o","n">> :> <<"1",".","0">>)
    @@ (<<"g","r","a","n","t","_","t","y","p","e">> :>
          <<"a","u","t","h","o","r","i","z","a","t","i","o","n","_","c",
            "o","d","e">>)
    @@ (<<"c","o","d","e">> :> code)

\* The params dict of AlipayOAuthService.get_user_info
UserInfoParams(app_id, access_token) ==
    (<<"a","p","p","_","i","d">> :> app_id)
    @@ (<<"m","e","t","h","o","d">> :>
          <<"a","l","i","p","a","y",".","u","s","e","r",".","i","n","f",
            "o",".","s","h","a","r","e">>)
    @@ (<<"c","h","a","r","s","e","t">> :> <<"U","T","F","-","8">>)
    @@ (<<"s","i","g","n","_","t","y","p","e">> :> <<"R","S","A","2">>)
    @@ (<<"t","i","m","e","s","t","a","m","p">> :> Timestamp)
    @@ (<<"v","e","r","s","i","o","n">> :> <<"1",".","0">>)
    @@ (<<"a","u","t","h","_","t","o","k","e","n">> :> access_token)

\* The app ids, authorization codes and tokens the Alipay adapter is
\* given; the empty str is one of them.
AppIds == {OAUTH_CONFIGS["alipay"].client_id, <<>>}
Codes == {<<"c","1">>, <<>>}
AuthTokens == {<<"a","t">>, <<>>}
ParamMaps ==
    {CallbackParams(app_id, code) : app_id \in AppIds, code \in Codes}
    \cup {UserInfoParams(app_id, access_token) :
            app_id \in AppIds, access_token \in AuthTokens}

alipay_build_sign_string(params) ==
    /\ UNCHANGED feVars
    /\ UNCHANGED <<now, served, tmVars, osVars, histVars>>
    /\ last' = Call("AlipayOAuthService._build_sign_string",
             [params |-> params],
             [sign_string |-> BuildSignString(params)])

SignString == \E params \in ParamMaps : alipay_build_sign_string(params)

\* A JSON value: null is None, a number [int |-> n], a string
\* [str |-> s], an array [list |-> seq]; an object is a function from its
\* keys.
JInt(n) == [int |-> n]
JStr(s) == [str |-> s]
JList(items) == [list |-> items]

\* raise type(f"{text}: {args}"): the exception, with the values that were
\* formatted into its message.
Raise(type, text, args) ==
    [error |-> [type |-> type, text |-> text, args |-> args]]
Raised(result) == "error" \in DOMAIN result

\* `"errcode" in data and data["errcode"] != 0`, then
\* RuntimeError(f"...: {data['errmsg']}")
ErrcodeSet(data) == "errcode" \in DOMAIN data /\ data["errcode"] # JInt(0)
RaiseErrmsg(text, data) ==
    IF "errmsg" \in DOMAIN data
    THEN Raise("RuntimeError", text, <<data["errmsg"]>>)
    ELSE Raise("KeyError", "errmsg", <<>>)

\* WeChatOAuthService._get_user_info, given the body of /sns/userinfo
WeChatUserInfo(data) ==
    IF ErrcodeSet(data) THEN RaiseErrmsg("get user info error", data)
    ELSE [value |->
            [openid |-> Get(data, "openid", None),
             nickname |-> Get(data, "nickname", None),
             sex |-> Get(data, "sex", None),
             province |-> Get(data, "province", None),
             city |-> Get(data, "city", None),
             country |-> Get(data, "country", None),
             headimgurl |-> Get(data, "headimgurl", None),
             privilege |-> Get(data, "privilege", JList(<<>>)),
             unionid |-> Get(data, "unionid", None)]]

\* WeChatOAuthService.handle_callback, given the bodies of
\* /sns/oauth2/access_token and of /sns/userinfo
WeChatHandleCallback(token_data, data) ==
    IF ErrcodeSet(token_data)
    THEN RaiseErrmsg("wechat token error", token_data)
    ELSE IF "access_token" \notin DOMAIN token_data
    THEN Raise("KeyError", "access_token", <<>>)
    ELSE IF "openid" \notin DOMAIN token_data
    THEN Raise("KeyError", "openid", <<>>)
    ELSE LET user_info == WeChatUserInfo(data)
         IN IF Raised(user_info) THEN user_info
            ELSE [value |->
                    [provider |-> JStr("wechat"),
                     openid |-> token_data["openid"],
                     unionid |-> Get(token_data, "unionid", None),
                     access_token |-> token_data["access_token"],
                     refresh_token |->
                         Get(token_data, "refresh_token", None),
                     expires_in |->
                         Get(token_data, "expires_in", JInt(7200)),
                     user_info |-> user_info.value]]

\* AlipayOAuthService.handle_callback: the signed request it posts and,
\* given the body of the gateway's answer, the dict it returns.
AlipayHandleCallback(app_id, code, result) ==
    LET params == CallbackParams(app_id, code)
        sign_string == BuildSignString(params)
        token_response ==
            Get(result, "alipay_system_oauth_token_response", EmptyDict)
    IN [request |-> [data |-> params, sign |-> Sign(sign_string)],
        value |->
          [provider |-> JStr("alipay"),
           user_id |-> Get(token_response, "user_id", None),
           access_token |-> Get(token_response, "access_token", None),
           refresh_token |-> Get(token_response, "refresh_token", None),
           expires_in |-> Get(token_response, "expires_in", None),
           re_expires_in |-> Get(token_response, "re_expires_in", None),
           user_info |->
             [nick_name |-> Get(token_response, "nick_name", None),
              avatar |-> Get(token_response, "avatar", None)]]]

\* OAuthService._exchange_code_for_token, given the answer of the token
\* endpoint: response.ok and the body, which response.text gives as it is
\* and response.json() parsed.
ExchangeCodeForToken(response) ==
    IF ~response.ok
    THEN Raise("RuntimeError", "Token exchange failed",
               <<[text |-> response.json]>>)
    ELSE [value |-> response.json]

\* `if x` for a JSON value
Truthy(v) == v \notin {None, JInt(0), JStr("")}

\* time.time(), in seconds
Time == now * 60

\* DingTalkOAuthService._ensure_app_token on a service whose fields are
\* `service`, given the body of /gettoken: the fields afterwards.
\* The same with the cached token taken as good until _token_expires_at
\* itself.
MutEnsureAppTokenAtNoMargin(service, time, data) ==
    IF /\ Truthy(service._access_token)
       /\ Truthy(service._token_expires_at)
       /\ time < service._token_expires_at.int
    THEN [service |-> service, requested |-> FALSE]
    ELSE IF Get(data, "errcode", None) # JInt(0)
    THEN Raise("RuntimeError", "dingtalk token error",
               <<Get(data, "errmsg", None)>>)
    ELSE IF "access_token" \notin DOMAIN data
    THEN Raise("KeyError", "access_token", <<>>)
    ELSE [service |->
            [_access_token |-> data["access_token"],
             _token_expires_at |->
                 JInt(time + Get(data, "expires_in", JInt(7200)).int - 60)],
          requested |-> TRUE]

\* _ensure_app_token when time.time() reads `time`.
EnsureAppTokenAt(service, time, data) ==
    IF /\ Truthy(service._access_token)
       /\ Truthy(service._token_expires_at)
       /\ time < service._token_expires_at.int - 60
    THEN [service |-> service, requested |-> FALSE]
    ELSE IF Get(data, "errcode", None) # JInt(0)
    THEN Raise("RuntimeError", "dingtalk token error",
               <<Get(data, "errmsg", None)>>)
    ELSE IF "access_token" \notin DOMAIN data
    THEN Raise("KeyError", "access_token", <<>>)
    ELSE [service |->
            [_access_token |-> data["access_token"],
             _token_expires_at |->
                 JInt(time + Get(data, "expires_in", JInt(7200)).int - 60)],
          requested |-> TRUE]

DingTalkEnsureAppToken(service, data) == EnsureAppTokenAt(service, Time, data)

\* DingTalkOAuthService._get_user_info after its _ensure_app_token, given
\* the body of /sns/getuserinfo.
DingTalkGetUserInfo(data) ==
    IF Get(data, "errcode", None) # JInt(0)
    THEN Raise("RuntimeError", "dingtalk user info error",
               <<Get(data, "errmsg", None)>>)
    ELSE LET user_info == Get(data, "user_info", EmptyDict)
         IN [user_id |-> Get(user_info, "userid", None),
             unionid |-> Get(user_info, "unionid", None),
             nickname |-> Get(user_info, "nick", None),
             avatar |-> Get(user_info, "avatar", None)]

\* DingTalkOAuthService.handle_callback on a service whose fields are
\* `service`: time.time() reads time1 in the _ensure_app_token of line 1125
\* and time2 in the one of line 1171; token_data is the body /gettoken
\* answers with and data the body of /sns/getuserinfo.  `requested` tells
\* for each _ensure_app_token call that ran whether it asked /gettoken.
DingTalkHandleCallback(service, time1, time2, token_data, data) ==
    LET first == EnsureAppTokenAt(service, time1, token_data)
    IN IF Raised(first)
       THEN [result |-> first, requested |-> <<TRUE>>]
       ELSE LET second == EnsureAppTokenAt(first.service, time2, token_data)
            IN IF Raised(second)
               THEN [result |-> second,
                     requested |-> <<first.requested, TRUE>>]
               ELSE LET user_info == DingTalkGetUserInfo(data)
                    IN [result |->
                          IF Raised(user_info) THEN user_info
                          ELSE [provider |-> "dingtalk",
                                user_id |-> user_info.user_id,
                                unionid |-> user_info.unionid,
                                nickname |-> user_info.nickname,
                                avatar |-> user_info.avatar,
                                access_token |-> second.service._access_token,
                                user_info |-> user_info],
                        requested |-> <<first.requested, second.requested>>]

\* Bodies of WeChat's /sns/oauth2/access_token
WeChatTokenBodies ==
    {[access_token |-> JStr("AT"), expires_in |-> JInt(7200),
      refresh_token |-> JStr("RT"), openid |-> JStr("abc"),
      unionid |-> JStr("u1")],
     [access_token |-> JStr("AT"), expires_in |-> JInt(0),
      refresh_token |-> JStr("RT"), openid |-> JStr("abc")],
     [access_token |-> JStr("AT"), openid |-> JStr("abc")],
     [errcode |-> JInt(0), access_token |-> JStr("AT"),
      expires_in |-> JInt(7200), openid |-> JStr("abc")],
     [errcode |-> JInt(40029), errmsg |-> JStr("invalid code")],
     [expires_in |-> JInt(7200), openid |-> JStr("abc")]}

\* Bodies of WeChat's /sns/userinfo
WeChatUserInfoBodies ==
    {[openid |-> JStr("abc"), nickname |-> JStr("xiaoming"),
      headimgurl |-> JStr("http://x")],
     [openid |-> JStr("abc"), nickname |-> JStr("xiaoming"),
      sex |-> JInt(1), province |-> JStr("PROVINCE"), city |-> JStr("CITY"),
      country |-> JStr("COUNTRY"), headimgurl |-> JStr("http://x"),
      privilege |-> JList(<<JStr("PRIVILEGE1")>>), unionid |-> JStr("u1")],
     [openid |-> JStr("abc"), nickname |-> JStr("xiaoming")],
     [openid |-> JStr("abc")],
     [errcode |-> JInt(40003), errmsg |-> JStr("invalid openid")]}

\* Bodies of the Alipay gateway for alipay.system.oauth.token
AlipayBodies ==
    {[alipay_system_oauth_token_response |->
        [user_id |-> JStr("2088"), access_token |-> JStr("AT"),
         refresh_token |-> JStr("RT"), expires_in |-> JInt(1296000),
         re_expires_in |-> JInt(2592000)]],
     [alipay_system_oauth_token_response |->
        [user_id |-> JStr("2088"), access_token |-> JStr("AT"),
         refresh_token |-> JStr("RT"), expires_in |-> JInt(0)]],
     [alipay_system_oauth_token_response |->
        [user_id |-> JStr("2088"), access_token |-> JStr("AT")]],
     [error_response |->
        [code |-> JStr("40002"), msg |-> JStr("Invalid Arguments"),
         sub_code |-> JStr("isv.code-invalid")]]}

\* Answers of a token endpoint to OAuthService
TokenResponses ==
    {[ok |-> TRUE,
      json |-> [access_token |-> JStr("AT"), token_type |-> JStr("bearer")]],
     [ok |-> TRUE,
      json |-> [error |-> JStr("bad_verification_code"),
                error_description |-> JStr("The code is incorrect")]],
     [ok |-> FALSE,
      json |-> [error |-> JStr("invalid_grant"),
                error_description |-> JStr("Bad Request")]]}

\* Bodies of DingTalk's /gettoken, and the fields a service can hold: none
\* yet, a token that is good for two hours, one that lapsed when it came.
DingTalkBodies ==
    {[errcode |-> JInt(0), access_token |-> JStr("AT"),
      expires_in |-> JInt(7200)],
     [errcode |-> JInt(0), access_token |-> JStr("AT"),
      expires_in |-> JInt(0)],
     [errcode |-> JInt(0), access_token |-> JStr("AT")],
     [errcode |-> JInt(40089), errmsg |-> JStr("bad appsecret")],
     [access_token |-> JStr("AT"), expires_in |-> JInt(7200)]}
DingTalkServices ==
    {[_access_token |-> None, _token_expires_at |-> None],
     [_access_token |-> JStr("AT"), _token_expires_at |-> JInt(7140)],
     [_access_token |-> JStr("AT"), _token_expires_at |-> JInt(0 - 60)]}

\* The readings of time.time(), in seconds: around the two ends of the
\* margin of a token of two hours that was fetched at 0.
ClockReadings == {0, 7079, 7080, 7139, 7200}

\* The bodies /gettoken has answered with before a callback, when the
\* service holds a token: the service fetched it at time 0.
CachedBodies ==
    {data \in DingTalkBodies :
        ~Raised(EnsureAppTokenAt([_access_token |-> None,
                                  _token_expires_at |-> None], 0, data))}

\* Bodies of DingTalk's /sns/getuserinfo
DingTalkUserInfoBodies ==
    {[errcode |-> JInt(0),
      user_info |-> [userid |-> JStr("u1"), nick |-> JStr("Li")]],
     [errcode |-> JInt(40078), errmsg |-> JStr("bad tmp_auth_code")]}

\* handle_callback on a service that has fetched its token at time 0 with
\* the answer `cached`.
dingtalk_handle_callback(cached, time1, time2, token_data, data) ==
    /\ UNCHANGED feVars
    /\ UNCHANGED <<now, served, tmVars, osVars, histVars>>
    /\ time1 <= time2
    /\ last' = Call("DingTalkOAuthService.handle_callback",
             [cached |-> cached, time1 |-> time1, time2 |-> time2,
              token_data |-> token_data, data |-> data],
             DingTalkHandleCallback(
                 EnsureAppTokenAt([_access_token |-> None,
                                   _token_expires_at |-> None],
                                  0, cached).service,
                 time1, time2, token_data, data))

DingTalkCallback ==
    \E cached \in CachedBodies, time1, time2 \in ClockReadings :
      \E token_data \in DingTalkBodies, data \in DingTalkUserInfoBodies :
        dingtalk_handle_callback(cached, time1, time2, token_data, data)

wechat_handle_callback(token_data, data) ==
    /\ UNCHANGED feVars
    /\ UNCHANGED <<now, served, tmVars, osVars, histVars>>
    /\ last' = Call("WeChatOAuthService.handle_callback",
             [token_data |-> token_data, data |-> data],
             WeChatHandleCallback(token_data, data))

alipay_handle_callback(app_id, code, result) ==
    /\ UNCHANGED feVars
    /\ UNCHANGED <<now, served, tmVars, osVars, histVars>>
    /\ last' = Call("AlipayOAuthService.handle_callback",
             [app_id |-> app_id, code |-> code, result |-> result],
             AlipayHandleCallback(app_id, code, result))

oauth_exchange_code_for_token(response) ==
    /\ UNCHANGED feVars
    /\ UNCHANGED <<now, served, tmVars, osVars, histVars>>
    /\ last' = Call("OAuthService._exchange_code_for_token",
             [response |-> response],
             ExchangeCodeForToken(response))

dingtalk_ensure_app_token(service, data) ==
    /\ UNCHANGED feVars
    /\ UNCHANGED <<now, served, tmVars, osVars, histVars>>
    /\ last' = Call("DingTalkOAuthService._ensure_app_token",
             [service |-> service, data |-> data],
             DingTalkEnsureAppToken(service, data))

WeChatCallback ==
    \E token_data \in WeChatTokenBodies, data \in WeChatUserInfoBodies :
        wechat_handle_callback(token_data, data)
AlipayCallback ==
    \E app_id \in AppIds, code \in Codes, result \in AlipayBodies :
        alipay_handle_callback(app_id, code, result)
TokenExchange ==
    \E response \in TokenResponses : oauth_exchange_code_for_token(response)
DingTalkAppToken ==
    \E service \in DingTalkServices, data \in DingTalkBodies :
        dingtalk_ensure_app_token(service, data)

NextAdapters ==
    \/ OAuthUrl
    \/ WeChatUrl
    \/ AlipayUrl
    \/ QQUrl
    \/ DingTalkUrl
    \/ SignString
    \/ WeChatCallback
    \/ AlipayCallback
    \/ TokenExchange
    \/ DingTalkAppToken
    \/ DingTalkCallback

SpecAdapters == Init /\ [][NextAdapters]_vars

\* ------------------------------------------------------------ ApiClient
\* The desktop client's ApiClient (services/api.ts) with its two
\* interceptors, and the user store it reads and writes.  A request of the
\* client is a record: where it stands (pc), the Authorization header it was
\* sent with, the refresh token its interceptor posted and the answer to
\* that post.
uiVars ==
    <<messages, isTyping, saveStatus, mounted, qrCode, polling, pollTimerRef,
      timers, nextTimer>>

\* useUserStore: setTokens(access, refresh) and logout()
SetTokens(access, refresh) == [accessToken |-> access, refreshToken |-> refresh]
LoggedOut == [accessToken |-> None, refreshToken |-> None]

\* A request as the request interceptor sends it: `if (token)` the header
\* carries the store's access token.
NewRequest ==
    [pc |-> "sent", Authorization |-> userStore.accessToken,
     refresh_token |-> None, response |-> None]

Completed == {"resolved", "rejected"}

\* The response interceptor, on the answer to request i.  A 2xx answer
\* resolves the request.  On a 401, when the store holds a refresh token,
\* it posts that token to /auth/refresh; any other error, or a 401 with no
\* refresh token stored, rejects the request.
OnResponse(i, status) ==
    LET refreshToken == userStore.refreshToken
    IN /\ requests' =
            [requests EXCEPT ![i] =
               IF status = 200 THEN [@ EXCEPT !.pc = "resolved"]
               ELSE IF status = 401 /\ refreshToken # None
               THEN [@ EXCEPT !.pc = "refresh",
                              !.refresh_token = refreshToken]
               ELSE [@ EXCEPT !.pc = "rejected"]]
       /\ last' = [op |-> "response", arg |-> [request |-> i],
                   result |-> [status |-> status]]
       /\ UNCHANGED userStore

\* The try block after `await axios.post('/auth/refresh', ...)`, or its
\* catch block: with the new access token and the refresh token that was
\* posted stored, the request is sent again through the request
\* interceptor; a failed refresh logs out and rejects.
on_refresh_response(i) ==
    /\ i \in 1..Len(requests)
    /\ requests[i].pc = "refreshed"
    /\ IF "access_token" \in DOMAIN requests[i].response
       THEN LET access_token == requests[i].response.access_token
            IN /\ userStore' =
                    SetTokens(access_token, requests[i].refresh_token)
               /\ requests' =
                    [requests EXCEPT ![i] =
                       [@ EXCEPT !.pc = "sent",
                                 !.Authorization = access_token]]
               /\ last' = [op |-> "on_refresh_response",
                           arg |-> [request |-> i],
                           result |-> [retry |-> TRUE]]
       ELSE /\ userStore' = LoggedOut
            /\ requests' = [requests EXCEPT ![i] = [@ EXCEPT !.pc = "rejected"]]
            /\ last' = [op |-> "on_refresh_response",
                        arg |-> [request |-> i],
                        result |-> [retry |-> FALSE]]
    /\ UNCHANGED <<now, served, tmVars, osVars, histVars, uiVars>>

\* The application calls the API.
api_request ==
    /\ served < MaxRequests
    /\ Len(requests) < MaxApiRequests
    /\ served' = served + 1
    /\ requests' = Append(requests, NewRequest)
    /\ last' = [op |-> "api_request", arg |-> [request |-> Len(requests) + 1],
                result |-> None]
    /\ UNCHANGED <<now, tmVars, osVars, histVars, userStore, uiVars>>

\* A login went through: the server made a token pair
\* (TokenManager.create_token_pair) and the client stored it.
client_login(user_id) ==
    LET pair == CreateTokenPair(user_id, nextJti)
    IN /\ served < MaxRequests
       /\ served' = served + 1
       /\ _refresh_token_store' =
             StoreAfterPair(_refresh_token_store, user_id, nextJti)
       /\ nextJti' = nextJti + 2
       /\ issued' = issued \cup {pair}
       /\ userStore' = SetTokens(pair.access_token, pair.refresh_token)
       /\ last' = [op |-> "client_login", arg |-> user_id, result |-> pair]
       /\ UNCHANGED <<now, tokenConfig, _blacklisted_tokens, osVars, created,
                      presented, calls, revoked, logged_out, requests,
                      uiVars>>

\* The server answers an API request: 401 when verify_access_token turns
\* the bearer token away, 200 otherwise; the response interceptor runs.
api_response(i) ==
    /\ i \in 1..Len(requests)
    /\ requests[i].pc = "sent"
    /\ OnResponse(i, IF VerifyAccessToken(requests[i].Authorization) # None
                     THEN 200 ELSE 401)
    /\ UNCHANGED <<now, served, tmVars, osVars, histVars, uiVars>>

\* POST /auth/refresh for the token request i posted: refresh_tokens, and
\* a 401 when it returns None.
refresh_token(i) ==
    LET token == requests[i].refresh_token
    IN /\ i \in 1..Len(requests)
       /\ requests[i].pc = "refresh"
       /\ IF RefreshAccepts(token)
          THEN LET payload ==
                     JwtDecode(token, SECRET_KEY, {ALGORITHM}, TRUE)
                   pair == CreateTokenPair(payload.sub, nextJti)
               IN /\ _refresh_token_store' =
                        RotateAndIssue(_refresh_token_store, payload.jti,
                                       payload.sub, nextJti)
                  /\ nextJti' = nextJti + 2
                  /\ issued' = issued \cup {pair}
                  /\ calls' = Counted(token, "ok")
                  /\ requests' =
                        [requests EXCEPT ![i] =
                           [@ EXCEPT !.pc = "refreshed", !.response = pair]]
                  /\ last' = [op |-> "refresh_token", arg |-> token,
                              result |-> pair]
          ELSE /\ calls' = Counted(token, "invalid")
               /\ requests' =
                     [requests EXCEPT ![i] =
                        [@ EXCEPT !.pc = "refreshed",
                                  !.response = [status_code |-> 401]]]
               /\ last' = [op |-> "refresh_token", arg |-> token,
                           result |-> [status_code |-> 401]]
               /\ UNCHANGED <<_refresh_token_store, nextJti, issued>>
       /\ UNCHANGED <<now, served, tokenConfig, _blacklisted_tokens, osVars,
                      created, presented, revoked, logged_out, userStore,
                      uiVars>>

ClientLogin == \E user_id \in UserIds : client_login(StrOf(user_id))
ApiRequest == api_request
ApiResponse == \E i \in 1..Len(requests) : api_response(i)
RefreshRoute == \E i \in 1..Len(requests) : refresh_token(i)
OnRefreshResponse == \E i \in 1..Len(requests) : on_refresh_response(i)

\* The client against the server of this repository: requests, the answers
\* TokenManager gives them, and time passing.
NextClient ==
    \/ ClientLogin
    \/ ApiRequest
    \/ ApiResponse
    \/ RefreshRoute
    \/ OnRefreshResponse
    \/ Tick

SpecClient == Init /\ [][NextClient]_vars

\* The tokens a server, any server, can answer with.
AnyAccessTokens == {[token |-> "a1"], [token |-> "a2"]}
AnyRefreshTokens == {[token |-> "r1"]}

\* A login went through, against any server: the client stored the pair.
store_tokens(access, refresh) ==
    /\ served < MaxRequests
    /\ served' = served + 1
    /\ userStore' = SetTokens(access, refresh)
    /\ last' = [op |-> "setTokens", arg |-> [access |-> access,
                                            refresh |-> refresh],
                result |-> None]
    /\ UNCHANGED <<now, tmVars, osVars, histVars, requests, uiVars>>

\* Any answer to the API request i; the response interceptor runs.
any_api_response(i, status) ==
    /\ i \in 1..Len(requests)
    /\ requests[i].pc = "sent"
    /\ OnResponse(i, status)
    /\ UNCHANGED <<now, served, tmVars, osVars, histVars, uiVars>>

\* Any answer to the post of request i to /auth/refresh.
any_refresh_response(i, response) ==
    /\ i \in 1..Len(requests)
    /\ requests[i].pc = "refresh"
    /\ requests' = [requests EXCEPT ![i] =
                      [@ EXCEPT !.pc = "refreshed", !.response = response]]
    /\ last' = [op |-> "refresh_response", arg |-> [request |-> i],
                result |-> response]
    /\ UNCHANGED <<now, served, tmVars, osVars, histVars, userStore, uiVars>>

StoreTokens ==
    \E access \in AnyAccessTokens, refresh \in AnyRefreshTokens :
        store_tokens(access, refresh)
AnyApiResponse(i) == \E status \in {200, 401, 500} : any_api_response(i, status)
AnyRefreshResponse(i) ==
    \E response \in {[access_token |-> t] : t \in AnyAccessTokens}
                    \cup {[status_code |-> 401]} :
        any_refresh_response(i, response)

\* The interceptors against a server that may answer anything.
NextInterceptor ==
    \/ StoreTokens
    \/ ApiRequest
    \/ \E i \in 1..MaxApiRequests : AnyApiResponse(i)
    \/ \E i \in 1..MaxApiRequests : AnyRefreshResponse(i)
    \/ OnRefreshResponse

\* With its scheduling: every request that is under way gets an answer, and
\* the promise that waits for an answer is resumed when it is there.
SpecInterceptor ==
    /\ Init
    /\ [][NextInterceptor]_vars
    /\ \A i \in 1..MaxApiRequests :
         /\ WF_vars(AnyApiResponse(i))
         /\ WF_vars(AnyRefreshResponse(i))
         /\ WF_vars(on_refresh_response(i))

\* ------------------------------------------------------------- timers
\* setTimeout and setInterval of the JavaScript runtime.  A timer that is
\* set has a callback, the arguments its closure holds, the time left until
\* it is due, and for an interval its period (0 for a timeout).  Time is in
\* milliseconds and passes in steps of TimeStep, half the delay of the
\* reply, so that events fall between the timers.
REPLY_DELAY == 1000
TimeStep == REPLY_DELAY \div 2

SetTimer(set, callback, args, delay, period) ==
    set @@ ((nextTimer + 1) :>
                 [callback |-> callback, args |-> args, left |-> delay,
                  period |-> period])

\* clearInterval(id), clearTimeout(id); an id that is not set is ignored.
ClearTimer(set, id) == [t \in DOMAIN set \ {id} |-> set[t]]

\* The timer that runs next: one that is due, the one set first among
\* those.
Due(id) ==
    /\ id \in DOMAIN timers
    /\ timers[id].left = 0
    /\ \A other \in DOMAIN timers : timers[other].left = 0 => id <= other

\* The timers after timer id has run: a timeout is gone, an interval is
\* set for its next period.
AfterRun(set, id) ==
    IF id \notin DOMAIN set THEN set
    ELSE IF set[id].period = 0 THEN ClearTimer(set, id)
    ELSE [set EXCEPT ![id].left = set[id].period]

\* Time passes, no further than to the next timer that is due.
elapse ==
    /\ timers # <<>>
    /\ \A id \in DOMAIN timers : timers[id].left >= TimeStep
    /\ timers' = [id \in DOMAIN timers |->
                    [timers[id] EXCEPT !.left = @ - TimeStep]]
    /\ last' = [op |-> "elapse", arg |-> TimeStep, result |-> None]
    /\ UNCHANGED <<now, served, tmVars, osVars, histVars, userStore, requests,
                   messages, isTyping, saveStatus, mounted, qrCode, polling,
                   pollTimerRef, nextTimer>>

\* ---------------------------------------------------------------- chat
\* sendMessageAtom (store/actions.js) behind ChatInput's handleSend.
\* input.trim()
RECURSIVE TrimStart(_)
TrimStart(text) ==
    IF text # <<>> /\ Head(text) = " " THEN TrimStart(Tail(text)) ELSE text
RECURSIVE TrimEnd(_)
TrimEnd(text) ==
    IF text # <<>> /\ text[Len(text)] = " "
    THEN TrimEnd(SubSeq(text, 1, Len(text) - 1)) ELSE text
Trim(text) == TrimEnd(TrimStart(text))

\* What the user has typed when Send is pressed.
Inputs == {<<>>, <<" ">>, <<"h", "i">>, <<" ", "o", "k", " ">>}

\* The aiMessage put in front of the list.
MutWithReplyFirst(prev, aiMessage) == <<aiMessage>> \o prev

\* set(messagesAtom, prev => [...prev, aiMessage])
WithReply(prev, aiMessage) == Append(prev, aiMessage)

\* The template of the reply, with the message in it.
ReplyContent(message) == <<"r", "e", ":">> \o message \o <<".">>

\* The state of the other components.
otherUi == <<saveStatus, mounted, qrCode, polling, pollTimerRef>>

\* Date.now() gives a message its id; the model writes the number of
\* the sendMessage call in its place, which is also the id of the timer the
\* call sets, and gives the reply the same number.
sendMessage(message) ==
    LET newMessage == [id |-> nextTimer + 1, type |-> "user",
                       content |-> message]
    IN /\ messages' = Append(messages, newMessage)
       /\ isTyping' = TRUE
       /\ timers' = SetTimer(timers, "aiMessage", [message |-> message], REPLY_DELAY, 0)
       /\ nextTimer' = nextTimer + 1

\* ChatInput.handleSend: `if (input.trim())` sendMessage(input.trim())
handleSend(input) ==
    /\ served < MaxRequests
    /\ served' = served + 1
    /\ IF Trim(input) # <<>>
       THEN sendMessage(Trim(input))
       ELSE UNCHANGED <<messages, isTyping, timers, nextTimer>>
    /\ last' = [op |-> "handleSend", arg |-> input, result |-> None]
    /\ UNCHANGED <<now, tmVars, osVars, histVars, userStore, requests,
                   otherUi>>

\* The callback sendMessage set one second before.
aiMessage(id) ==
    /\ Due(id)
    /\ timers[id].callback = "aiMessage"
    /\ messages' =
          WithReply(messages,
                    [id |-> id, type |-> "companion",
                     content |-> ReplyContent(timers[id].args.message)])
    /\ isTyping' = FALSE
    /\ timers' = AfterRun(timers, id)
    /\ last' = [op |-> "aiMessage", arg |-> id, result |-> None]
    /\ UNCHANGED <<now, served, tmVars, osVars, histVars, userStore, requests,
                   otherUi, nextTimer>>

HandleSend == \E input \in Inputs : handleSend(input)
AiMessage == \E id \in DOMAIN timers : aiMessage(id)

NextChat ==
    \/ HandleSend
    \/ AiMessage
    \/ elapse

\* The chat with its scheduling: time passes and a timer that is due runs.
SpecChat ==
    /\ Init
    /\ [][NextChat]_vars
    /\ WF_vars(elapse)
    /\ WF_vars(AiMessage)

\* ----------------------------------------------------- personality page
\* handleSave of pages/Personality/index.jsx and the two timeouts it sets.
SAVE_DELAY == 1000
SUCCESS_DELAY == 2000

notPersonality == <<messages, isTyping, mounted, qrCode, polling, pollTimerRef>>

\* onClick={handleSave}, on a button that is disabled while saveStatus is
\* 'saving'.
handleSave ==
    /\ served < MaxRequests
    /\ saveStatus # "saving"
    /\ served' = served + 1
    /\ saveStatus' = "saving"
    /\ timers' = SetTimer(timers, "saved", None, SAVE_DELAY, 0)
    /\ nextTimer' = nextTimer + 1
    /\ last' = [op |-> "handleSave", arg |-> None, result |-> nextTimer + 1]
    /\ UNCHANGED <<now, tmVars, osVars, histVars, userStore, requests,
                   notPersonality>>

\* The outer callback: the save reports success and sets the inner timeout.
saved(id) ==
    /\ Due(id)
    /\ timers[id].callback = "saved"
    /\ saveStatus' = "success"
    /\ timers' = SetTimer(AfterRun(timers, id), "backToIdle", None,
                          SUCCESS_DELAY, 0)
    /\ nextTimer' = nextTimer + 1
    /\ last' = [op |-> "saved", arg |-> id, result |-> None]
    /\ UNCHANGED <<now, served, tmVars, osVars, histVars, userStore, requests,
                   notPersonality>>

\* The inner callback.
backToIdle(id) ==
    /\ Due(id)
    /\ timers[id].callback = "backToIdle"
    /\ saveStatus' = "idle"
    /\ timers' = AfterRun(timers, id)
    /\ last' = [op |-> "backToIdle", arg |-> id, result |-> None]
    /\ UNCHANGED <<now, served, tmVars, osVars, histVars, userStore, requests,
                   notPersonality, nextTimer>>

Saved == \E id \in DOMAIN timers : saved(id)
BackToIdle == \E id \in DOMAIN timers : backToIdle(id)

NextPersonality ==
    \/ handleSave
    \/ Saved
    \/ BackToIdle
    \/ elapse

SpecPersonality == Init /\ [][NextPersonality]_vars

\* -------------------------------------------------- WeChat QR button
\* WeChatLoginButton (frontend/src/components/auth/WeChatLoginButton.tsx).
POLL_INTERVAL == 2000

\* generateState() draws 32 random characters: any value, and two calls
\* may or may not give the same one.
RandomStates == {"stateA", "stateB"}

\* getQrCodeUrl(), with the value its own generateState() call gave.  The
\* redirect_uri is encoded by encodeURIComponent and then once more by
\* URLSearchParams.
getQrCodeUrl(state) ==
    [base |-> "https://open.weixin.qq.com/connect/qrconnect",
     params |-> [appid |-> "WECHAT_APP_ID",
                 redirect_uri |-> <<"encoded", "encoded", "CALLBACK_URL">>,
                 response_type |-> "code",
                 scope |-> "snsapi_login",
                 state |-> state]]

\* What /api/auth/wechat/check answers; "error" is a fetch that throws.
CheckStatuses == {"pending", "confirmed", "timeout", "error"}

notButton == <<messages, isTyping, saveStatus>>

\* The timers after stopPolling(): clearInterval of the interval that
\* pollTimerRef.current holds, if it holds one.
StopPolling(set) ==
    IF pollTimerRef # None THEN ClearTimer(set, pollTimerRef.id) ELSE set

\* onPress={handlePress}: generateState(), setQrCode(getQrCodeUrl()) and
\* startPolling(state).
handlePress(state, urlState) ==
    /\ served < MaxRequests
    /\ mounted
    /\ served' = served + 1
    /\ qrCode' = getQrCodeUrl(urlState)
    /\ polling' = TRUE
    /\ timers' = SetTimer(timers, "checkLogin", [state |-> state],
                          POLL_INTERVAL, POLL_INTERVAL)
    /\ pollTimerRef' = [id |-> nextTimer + 1]
    /\ nextTimer' = nextTimer + 1
    /\ last' = [op |-> "handlePress", arg |-> state, result |-> nextTimer + 1]
    /\ UNCHANGED <<now, tmVars, osVars, histVars, userStore, requests,
                   notButton, mounted>>

\* One run of checkLogin, the callback of the interval, with the answer of
\* the server; the fetch and its answer are taken as one step.
checkLogin(id, status) ==
    /\ Due(id)
    /\ timers[id].callback = "checkLogin"
    /\ IF status \in {"confirmed", "timeout"}
       THEN /\ timers' = StopPolling(AfterRun(timers, id))
            /\ pollTimerRef' = None
            /\ polling' = FALSE
       ELSE /\ timers' = AfterRun(timers, id)
            /\ UNCHANGED <<pollTimerRef, polling>>
    /\ last' = [op |-> "checkLogin",
                arg |-> [timer |-> id, state |-> timers[id].args.state],
                result |-> status]
    /\ UNCHANGED <<now, served, tmVars, osVars, histVars, userStore, requests,
                   notButton, mounted, qrCode, nextTimer>>

\* The cleanup of useEffect: stopPolling() when the component unmounts.
unmount ==
    /\ mounted
    /\ mounted' = FALSE
    /\ timers' = StopPolling(timers)
    /\ pollTimerRef' = None
    /\ polling' = FALSE
    /\ last' = [op |-> "unmount", arg |-> None, result |-> None]
    /\ UNCHANGED <<now, served, tmVars, osVars, histVars, userStore, requests,
                   notButton, qrCode, nextTimer>>

HandlePress == \E state, urlState \in RandomStates : handlePress(state, urlState)
CheckLogin == \E id \in DOMAIN timers, status \in CheckStatuses : checkLogin(id, status)

NextButton ==
    \/ HandlePress
    \/ CheckLogin
    \/ unmount
    \/ elapse

SpecButton == Init /\ [][NextButton]_vars

\* ------------------------------------------------------------------ claims

\* C1: of the callbacks that present a state token created by
\* get_authorization_url, exactly one passes the state check, and every other
\* one is turned away with "Invalid state parameter", whether they come one
\* after the other or while an earlier one is still waiting for the provider.
C1_StateSingleUse ==
    \A s \in DOMAIN created :
        LET c == ChecksOf(s)
        IN /\ c.passed <= 1
           /\ c.passed + c.invalid > 0 => c.passed = 1
           /\ c.passed = 0 <=> s \in DOMAIN _state_store

\* A second callback was turned away while the first one, which had passed
\* the check with the same state, was still in flight.
C1_Witness ==
    \E i \in 1..Len(cb) :
        /\ cb[i].pc # "done"
        /\ ChecksOf(cb[i].state).passed = 1
        /\ ChecksOf(cb[i].state).invalid >= 1

\* C2: with rotation on, of two refresh_tokens calls with the same issued
\* refresh token, neither expired nor revoked by revoke_refresh_token, exactly
\* one returns a new pair and the other returns None; no refresh token ever
\* yields more than one pair.
C2_RotationSingleUse ==
    \A p \in issued :
        LET j == p.refresh_token.payload.jti
            c == CallsOf(j)
        IN /\ c.ok <= 1
           /\ (/\ c.ok + c.invalid = 2
               /\ j \notin revoked
               /\ p.refresh_token.payload.exp >= now)
              => c.ok = 1 /\ c.invalid = 1

C2_Witness ==
    \E p \in issued :
        /\ CallsOf(p.refresh_token.payload.jti) = [ok |-> 1, invalid |-> 1]
        /\ p.refresh_token.payload.jti \notin revoked
        /\ p.refresh_token.payload.exp >= now

\* C3: a callback that presents a state more than 10 minutes after
\* get_authorization_url created it does not get past the state check.
C3_StateExpiry ==
    (/\ last.op = "oauth_callback"
     /\ last.arg.state \in DOMAIN created
     /\ now - created[last.arg.state].at > 10)
    => last.result # None

\* C4: once blacklist_token has taken a validly signed token, every
\* verify_access_token of that token returns None, also before its expiry.
C4_BlacklistEffect ==
    \A t \in Own : t.payload.jti \in logged_out => VerifyAccessToken(t) = None

\* verify_access_token has just turned away a blacklisted access token whose
\* expiry has not passed.
C4_Witness ==
    /\ last.op = "verify_access_token"
    /\ last.arg \in OwnAccess
    /\ last.arg.payload.jti \in logged_out
    /\ last.arg.payload.exp >= now
    /\ last.result = None

\* C5: right after create_token_pair(s), verify_access_token of the access
\* token it returned gives claims with sub = s and type = "access".
C5_RoundTrip ==
    last.op = "create_token_pair" =>
        LET claims == VerifyAccessToken(last.result.access_token)
        IN /\ claims # None
           /\ claims.sub = last.arg
           /\ claims.type = "access"

\* A pair was issued after time had passed.
C5_Witness ==
    /\ last.op = "create_token_pair"
    /\ now > 0
    /\ last.result.access_token.payload.sub = last.arg

\* C6: a callback for provider P, with a code and without an error, that
\* presents a stored state created for another provider fails with "Provider
\* mismatch": it reaches no await and no token pair is issued.
C6_ProviderMismatch ==
    [][(/\ served' = served + 1
        /\ last'.op = "oauth_callback"
        /\ last'.arg.code # NoCode
        /\ last'.arg.error = NoError
        /\ last'.arg.state \in DOMAIN _state_store
        /\ _state_store[last'.arg.state].provider # last'.arg.provider)
       => (/\ last'.result = [error |-> "Provider mismatch"]
           /\ cb' = cb
           /\ issued' = issued
           /\ _refresh_token_store' = _refresh_token_store)]_vars

C6_Witness ==
    /\ last.op = "oauth_callback"
    /\ last.result = [error |-> "Provider mismatch"]
    /\ created[last.arg.state].provider # last.arg.provider

\* C7: refresh_tokens returns a pair only if, when it is called, the store
\* holds a record for the token's jti with revoked = False; revoked never
\* goes from True back to False; and once revoke_refresh_token has returned
\* True for a token, refresh_tokens turns that token away.
C7_UsableWhileUnrevoked ==
    /\ [][/\ (/\ last'.op = "refresh_tokens"
              /\ last'.result # None
              /\ calls' # calls)
             => LET j == last'.arg.payload.jti
                IN /\ j \in DOMAIN _refresh_token_store
                   /\ ~_refresh_token_store[j].revoked
          /\ \A j \in DOMAIN _refresh_token_store :
                _refresh_token_store[j].revoked
                => /\ j \in DOMAIN _refresh_token_store'
                   /\ _refresh_token_store'[j].revoked]_vars
    /\ [](\A t \in Own : t.payload.jti \in revoked => ~RefreshAccepts(t))

\* refresh_tokens has just turned away an unexpired refresh token that
\* rotation had not consumed, after revoke_refresh_token returned True for it.
C7_Witness ==
    /\ last.op = "refresh_tokens"
    /\ last.arg \in OwnRefresh
    /\ last.arg.payload.jti \in revoked
    /\ last.arg.payload.exp >= now
    /\ CallsOf(last.arg.payload.jti).ok = 0
    /\ last.result = None

\* C8 as stated: once the refresh record of a pair is revoked, or the pair's
\* tokens have both expired, refresh_tokens turns the pair's refresh token
\* away and verify_access_token turns its access token away.
C8_PairTerminal ==
    \A p \in issued :
        (\/ _refresh_token_store[p.refresh_token.payload.jti].revoked
         \/ p.refresh_token.payload.exp < now)
        => /\ ~RefreshAccepts(p.refresh_token)
           /\ VerifyAccessToken(p.access_token) = None

\* C8 as amended: revoked and expired are terminal for each token.  A refresh
\* token that revoke_refresh_token has revoked, that a rotation has consumed
\* or that has expired is turned away by refresh_tokens; an access token that
\* has expired or was blacklisted is turned away by verify_access_token; and
\* the access token of a pair whose refresh token is revoked still verifies
\* until it expires or is blacklisted.
C8_TokenTerminal ==
    \A p \in issued :
        LET r == p.refresh_token
            a == p.access_token
        IN /\ (\/ r.payload.jti \in revoked
               \/ CallsOf(r.payload.jti).ok > 0
               \/ r.payload.exp < now)
              => ~RefreshAccepts(r)
           /\ (a.payload.exp < now \/ a.payload.jti \in logged_out)
              => VerifyAccessToken(a) = None
           /\ (a.payload.exp >= now /\ a.payload.jti \notin logged_out)
              => VerifyAccessToken(a) = a.payload

\* verify_access_token has just accepted the access token of a pair whose
\* refresh token a rotation had consumed.
C8_Witness ==
    /\ last.op = "verify_access_token"
    /\ last.result # None
    /\ \E p \in issued :
          /\ p.access_token = last.arg
          /\ CallsOf(p.refresh_token.payload.jti).ok > 0
          /\ ~RefreshAccepts(p.refresh_token)

\* C9: the URL that get_authorization_url(P) returns contains state=S for
\* the state S it stored for P; a callback with a code that presents S is
\* turned away by the state check only if S was presented before; and the
\* result of a handle_callback that went through, for the user u that the
\* user lookup returned, holds an access token that verifies with sub = u.
C9_EndToEnd ==
    /\ (/\ last.op = "get_authorization_url"
        /\ last.arg.state = NoState
        /\ "url" \in DOMAIN last.result)
       => LET S == TokenUrlsafe(nextState)
          IN /\ Contains(last.result.url, <<"s","t","a","t","e","=">> \o S)
             /\ S \in DOMAIN _state_store
             /\ _state_store[S].provider = last.arg.provider
    /\ (/\ last.op = "oauth_callback"
        /\ last.result = [error |-> "Invalid state parameter"]
        /\ last.arg.state \in DOMAIN created)
       => ChecksOf(last.arg.state).passed = 1
    /\ (last.op = "handle_callback" /\ "access_token" \in DOMAIN last.result)
       => LET claims == VerifyAccessToken(last.result.access_token)
          IN /\ claims # None
             /\ claims.sub = StrOf(last.result.user.id)
             /\ created[last.arg.state].provider = last.arg.provider

\* A login went through: the callback presented the state of the URL, in the
\* provider's name, and got a token pair.
C9_Witness ==
    /\ last.op = "handle_callback"
    /\ "access_token" \in DOMAIN last.result
    /\ Contains(AuthorizationUrl(ConfigOf(last.arg.provider), last.arg.state),
                <<"s","t","a","t","e","=">> \o last.arg.state)
    /\ VerifyAccessToken(last.result.access_token) # None

\* C10: verify_access_token returns claims for no token of type "refresh",
\* and refresh_tokens issues a pair for no token of type "access".
C10_TypeDiscriminator ==
    /\ \A t \in Own \cup Forged :
          /\ t.payload.type = "refresh" => VerifyAccessToken(t) = None
          /\ t.payload.type = "access" => ~RefreshAccepts(t)
    /\ (last.op = "verify_access_token" /\ last.result # None)
       => last.arg.payload.type = "access"
    /\ (last.op = "refresh_tokens" /\ last.result # None)
       => last.arg.payload.type = "refresh"

\* verify_access_token has just turned away a validly signed, unexpired
\* refresh token whose jti is not blacklisted.
C10_Witness ==
    /\ last.op = "verify_access_token"
    /\ last.arg \in OwnRefresh
    /\ last.arg.payload.exp >= now
    /\ last.arg.payload.jti \notin _blacklisted_tokens
    /\ last.result = None

\* C11: handle_callback deletes the state record in the step in which it
\* passes the state check, before the code exchange starts, so the state of
\* every invocation that reached the exchange is out of the store, also after
\* the exchange or the user-info fetch failed or the request was cancelled;
\* a later callback that presents such a state is turned away with "Invalid
\* state parameter".
C11_ConsumedBeforeExchange ==
    /\ \A i \in 1..Len(cb) : ~StateAccepted(_state_store, cb[i].state)
    /\ (/\ last.op = "oauth_callback"
        /\ RouteCheck(last.arg.code, last.arg.error) = ""
        /\ \E i \in 1..Len(cb) :
              /\ cb[i].state = last.arg.state
              /\ (last.result # None \/ i < Len(cb)))
       => last.result = [error |-> "Invalid state parameter"]

\* A callback was turned away for presenting the state of an invocation that
\* had ended without a token pair: failed or cancelled after the state check.
C11_Witness ==
    /\ last.op = "oauth_callback"
    /\ last.result = [error |-> "Invalid state parameter"]
    /\ issued = {}
    /\ \E i \in 1..Len(cb) :
          cb[i].state = last.arg.state /\ cb[i].pc = "done"

\* C12: a callback with an error parameter fails with "OAuth error", and one
\* without an error and without a code fails with "Missing authorization
\* code"; in both cases the state store is left as it was, the state check is
\* not made and no invocation reaches the provider.
C12_RouteChecksFirst ==
    [][(served' = served + 1 /\ last'.op = "oauth_callback")
       => /\ last'.arg.error # NoError
             => /\ last'.result = [error |-> "OAuth error"]
                /\ _state_store' = _state_store
                /\ presented' = presented
                /\ cb' = cb
          /\ (last'.arg.error = NoError /\ last'.arg.code = NoCode)
             => /\ last'.result = [error |-> "Missing authorization code"]
                /\ _state_store' = _state_store
                /\ presented' = presented
                /\ cb' = cb]_vars

\* A callback that presented a stored state together with an error parameter
\* was refused, and the state is still in the store.
C12_Witness ==
    /\ last.op = "oauth_callback"
    /\ last.arg.error # NoError
    /\ last.result = [error |-> "OAuth error"]
    /\ last.arg.state \in DOMAIN _state_store

\* C13: get_authorization_url for a provider that has no configuration fails
\* with "Unknown OAuth provider"; it draws no state and leaves the state
\* store as it was.
C13_UnknownProvider ==
    [][(/\ served' = served + 1
        /\ last'.op = "get_authorization_url"
        /\ last'.arg.provider \notin DOMAIN OAUTH_CONFIGS)
       => /\ last'.result = [error |-> "Unknown OAuth provider"]
          /\ _state_store' = _state_store
          /\ nextState' = nextState
          /\ created' = created]_vars

\* A login for an unconfigured provider was refused while the store held the
\* state of an earlier login.
C13_Witness ==
    /\ last.op = "get_authorization_url"
    /\ last.arg.provider \notin DOMAIN OAUTH_CONFIGS
    /\ last.arg.state = NoState
    /\ last.result = [error |-> "Unknown OAuth provider"]
    /\ DOMAIN _state_store # {}

\* C14 as stated: revoke_refresh_token(R), for a refresh token R that
\* create_token_pair issued, returns True exactly when the ledger holds a
\* record for R's jti, and then that record is marked revoked.
C14_RevokeFindsRecord ==
    (last.op = "revoke_refresh_token" /\ last.arg \in OwnRefresh)
    => LET j == last.arg.payload.jti
       IN /\ last.result.found <=> j \in DOMAIN _refresh_token_store
          /\ j \in DOMAIN _refresh_token_store
             => _refresh_token_store[j].revoked

\* C14 as amended: revoke_refresh_token(R) decodes R first, checking its
\* signature and its expiry.  For a validly signed, unexpired R it returns
\* True exactly when the ledger holds a record for R's jti and marks that
\* record revoked, changing nothing else; for any other R (malformed, wrongly
\* signed, expired) it returns False and leaves the ledger as it was, even
\* when a record for the jti is there.  It is idempotent: on a record that is
\* already revoked it returns True and leaves the ledger unchanged.
C14_RevokeContract ==
    [][(served' = served + 1 /\ last'.op = "revoke_refresh_token")
       => LET R == last'.arg
              decodes == R \in Own /\ R.payload.exp >= now
              present == decodes /\
                         R.payload.jti \in DOMAIN _refresh_token_store
          IN /\ last'.result = [found |-> present]
             /\ present
                => /\ DOMAIN _refresh_token_store' =
                         DOMAIN _refresh_token_store
                   /\ \A j \in DOMAIN _refresh_token_store :
                         _refresh_token_store'[j] =
                            IF j = R.payload.jti
                            THEN [user_id |->
                                     _refresh_token_store[j].user_id,
                                  revoked |-> TRUE]
                            ELSE _refresh_token_store[j]
                   /\ _refresh_token_store[R.payload.jti].revoked
                      => _refresh_token_store' = _refresh_token_store
             /\ ~present => _refresh_token_store' = _refresh_token_store
             /\ _blacklisted_tokens' = _blacklisted_tokens]_vars

\* revoke_refresh_token has just returned False for an issued refresh token
\* that had expired, and its record is in the ledger, not revoked.
C14_Witness ==
    /\ last.op = "revoke_refresh_token"
    /\ last.arg \in OwnRefresh
    /\ last.arg.payload.exp < now
    /\ last.result = [found |-> FALSE]
    /\ last.arg.payload.jti \in DOMAIN _refresh_token_store
    /\ ~_refresh_token_store[last.arg.payload.jti].revoked

\* C15: blacklist_token returns without an error for every token; for a
\* malformed or wrongly signed one it leaves the blacklist and the refresh
\* ledger as they were, and for a correctly signed one it adds the jti to the
\* blacklist also when the token's expiry has passed.
C15_BlacklistQuiet ==
    [][(served' = served + 1 /\ last'.op = "blacklist_token")
       => LET token == last'.arg
          IN /\ last'.result = None
             /\ _refresh_token_store' = _refresh_token_store
             /\ token \in Forged \cup {Malformed}
                => _blacklisted_tokens' = _blacklisted_tokens
             /\ token \in Own
                => _blacklisted_tokens' =
                      _blacklisted_tokens \cup {token.payload.jti}]_vars

\* blacklist_token has just put the jti of an expired access token on the
\* blacklist.
C15_Witness ==
    /\ last.op = "blacklist_token"
    /\ last.arg \in OwnAccess
    /\ last.arg.payload.exp < now
    /\ last.arg.payload.jti \in _blacklisted_tokens

\* C16: whatever makes a token fail, the caller gets the same result.
\* verify_access_token returns None for a token that is malformed or wrongly
\* signed, expired, not of type "access" or blacklisted, and a payload
\* otherwise; refresh_tokens returns None for a token that is malformed or
\* wrongly signed, expired, not of type "refresh", without a ledger record or
\* with a revoked one, and a pair otherwise.
C16_UniformInvalid ==
    /\ [](\A token \in Presentable :
            LET fails == \/ token \notin Own
                         \/ token.payload.exp < now
                         \/ token.payload.type # "access"
                         \/ token.payload.jti \in _blacklisted_tokens
            IN VerifyAccessToken(token) =
                  IF fails THEN None ELSE token.payload)
    /\ [][(served' = served + 1 /\ last'.op = "refresh_tokens")
          => LET token == last'.arg
                 fails ==
                    \/ token \notin Own
                    \/ token.payload.exp < now
                    \/ token.payload.type # "refresh"
                    \/ token.payload.jti \notin DOMAIN _refresh_token_store
                    \/ _refresh_token_store[token.payload.jti].revoked
             IN IF fails THEN last'.result = None
                ELSE /\ last'.result # None
                     /\ last'.result \in issued']_vars

\* verify_access_token has just returned None for an expired access token,
\* while it would return the same for an unexpired refresh token and for a
\* wrongly signed token.
C16_Witness ==
    /\ last.op = "verify_access_token"
    /\ last.arg \in OwnAccess
    /\ last.arg.payload.exp < now
    /\ last.arg.payload.jti \notin _blacklisted_tokens
    /\ last.result = None
    /\ \E other \in OwnRefresh :
          other.payload.exp >= now /\ VerifyAccessToken(other) = last.result
    /\ \E other \in Forged : VerifyAccessToken(other) = last.result

C18_NoRetry ==
    [][/\ last'.op \in {"exchange_code_for_token", "get_user_info"}
          => LET i == CHOOSE n \in 1..Len(cb) :
                         cb[n].state = last'.arg.state
                 exchange == last'.op = "exchange_code_for_token"
             IN /\ cb[i].pc = IF exchange THEN "exchange" ELSE "userinfo"
                /\ cb'[i].pc =
                      IF last'.result.error # "" THEN "done"
                      ELSE IF exchange THEN "userinfo" ELSE "resolve"
                /\ last'.result.error # ""
                   => /\ issued' = issued
                      /\ _refresh_token_store' = _refresh_token_store
                /\ \A n \in 1..Len(cb) \ {i} : cb'[n] = cb[n]
       /\ Len(cb') >= Len(cb)
       /\ \A n \in 1..Len(cb) :
             LET Rank(pc) == CASE pc = "exchange" -> 1
                               [] pc = "userinfo" -> 2
                               [] pc = "resolve" -> 3
                               [] pc = "done" -> 4
             IN /\ Rank(cb'[n].pc) >= Rank(cb[n].pc)
                /\ cb[n].pc = "done" => cb'[n] = cb[n]
       /\ (issued' # issued \/ _refresh_token_store' # _refresh_token_store)
          => \E n \in 1..Len(cb) :
                cb[n].pc = "resolve" /\ cb'[n].pc = "done"]_vars

\* The user-info fetch of an invocation has just failed, after its code
\* exchange had succeeded: the invocation has ended and nothing was issued.
C18_Witness ==
    /\ last.op = "get_user_info"
    /\ last.result = [error |-> "Failed to get user info"]
    /\ \E n \in 1..Len(cb) :
          cb[n].state = last.arg.state /\ cb[n].pc = "done"
    /\ issued = {}
    /\ _refresh_token_store = <<>>

\* C19: every state record that get_authorization_url has put into the
\* state store is removed from it at some later time, whether or not a
\* callback for it arrives.
C19_StateEventuallyRemoved ==
    \A n \in 1..MaxRequests :
        (TokenUrlsafe(n) \in DOMAIN _state_store)
        ~> (TokenUrlsafe(n) \notin DOMAIN _state_store)

\* C20: create_token_pair(s) adds one record to the refresh ledger, under
\* the jti of the refresh token it returns, a jti the ledger did not hold,
\* with user_id = s and revoked = False; every record that was there stays as
\* it was and the blacklist is unchanged.
C20_PairAddsOneRecord ==
    [][(served' = served + 1 /\ last'.op = "create_token_pair")
       => LET j == last'.result.refresh_token.payload.jti
          IN /\ j \notin DOMAIN _refresh_token_store
             /\ DOMAIN _refresh_token_store' =
                   DOMAIN _refresh_token_store \cup {j}
             /\ _refresh_token_store'[j] =
                   [user_id |-> last'.arg, revoked |-> FALSE]
             /\ \A k \in DOMAIN _refresh_token_store :
                   _refresh_token_store'[k] = _refresh_token_store[k]
             /\ _blacklisted_tokens' = _blacklisted_tokens]_vars

\* create_token_pair has just added a record to a ledger that held a
\* revoked record, with a jti on the blacklist.
C20_Witness ==
    /\ last.op = "create_token_pair"
    /\ _refresh_token_store[last.result.refresh_token.payload.jti] =
          [user_id |-> last.arg, revoked |-> FALSE]
    /\ \E k \in DOMAIN _refresh_token_store :
          _refresh_token_store[k].revoked
    /\ _blacklisted_tokens # {}

\* C21: a refresh_tokens(R) that returns a pair marks R's record revoked;
\* the access and the refresh token of the pair carry R's subject, which is
\* the user_id of R's record; and the new refresh token has a record of its
\* own, new to the ledger and not revoked.
C21_RefreshKeepsSubject ==
    [][(/\ served' = served + 1
        /\ last'.op = "refresh_tokens"
        /\ last'.result # None)
       => LET R == last'.arg.payload
              pair == last'.result
              k == pair.refresh_token.payload.jti
          IN /\ _refresh_token_store'[R.jti].revoked
             /\ pair.access_token.payload.sub = R.sub
             /\ pair.refresh_token.payload.sub = R.sub
             /\ R.sub = _refresh_token_store[R.jti].user_id
             /\ k # R.jti
             /\ k \notin DOMAIN _refresh_token_store
             /\ _refresh_token_store'[k] =
                   [user_id |-> R.sub, revoked |-> FALSE]]_vars

\* refresh_tokens has just returned a pair for a refresh token that itself
\* came out of a rotation: the subject went through two rotations.
C21_Witness ==
    /\ last.op = "refresh_tokens"
    /\ last.result # None
    /\ last.arg.payload.jti > 2
    /\ last.result.refresh_token.payload.sub = last.arg.payload.sub
    /\ _refresh_token_store[last.arg.payload.jti].revoked

\* C27: a callback that fails with "Provider mismatch" has taken the state
\* it presented out of the store, and a later callback that presents the same
\* state, now for the provider the state was created for, is turned away
\* with "Invalid state parameter" and starts no exchange.
C27_MismatchConsumes ==
    /\ []((/\ last.op = "oauth_callback"
           /\ last.result = [error |-> "Provider mismatch"])
          => last.arg.state \notin DOMAIN _state_store)
    /\ [][(/\ served' = served + 1
           /\ last'.op = "oauth_callback"
           /\ RouteCheck(last'.arg.code, last'.arg.error) = ""
           /\ last'.arg.state \in DOMAIN created
           /\ ChecksOf(last'.arg.state).passed = 1
           /\ \A i \in 1..Len(cb) : cb[i].state # last'.arg.state
           /\ last'.arg.provider = created[last'.arg.state].provider)
          => /\ last'.result = [error |-> "Invalid state parameter"]
             /\ cb' = cb
             /\ issued' = issued]_vars

\* A callback for the right provider was turned away because an earlier
\* callback for another provider had used the state up.
C27_Witness ==
    /\ last.op = "oauth_callback"
    /\ last.result = [error |-> "Invalid state parameter"]
    /\ last.arg.state \in DOMAIN created
    /\ last.arg.provider = created[last.arg.state].provider
    /\ ChecksOf(last.arg.state) = [passed |-> 1, invalid |-> 1]
    /\ \A i \in 1..Len(cb) : cb[i].state # last.arg.state

\* C28: logout touches the blacklist only.  blacklist_token leaves the
\* refresh ledger as it was, and refresh_tokens(R), for an unexpired R whose
\* record is not revoked, returns a pair whatever the blacklist holds, the
\* jti of the access token issued with R included; the access token of that
\* new pair is accepted by verify_access_token.
C28_LogoutKeepsRefresh ==
    /\ [][/\ last'.op = "blacklist_token"
             => _refresh_token_store' = _refresh_token_store
          /\ (/\ served' = served + 1
              /\ last'.op = "refresh_tokens"
              /\ last'.arg \in OwnRefresh
              /\ last'.arg.payload.exp >= now
              /\ ~_refresh_token_store[last'.arg.payload.jti].revoked)
             => last'.result # None]_vars
    /\ []((last.op = "refresh_tokens" /\ last.result # None)
          => VerifyAccessToken(last.result.access_token) =
                last.result.access_token.payload)

\* refresh_tokens(R) has just returned a pair although the access token
\* issued together with R is on the blacklist.
C28_Witness ==
    /\ last.op = "refresh_tokens"
    /\ last.result # None
    /\ \E p \in issued :
          /\ p.refresh_token = last.arg
          /\ p.access_token.payload.jti \in _blacklisted_tokens
          /\ VerifyAccessToken(p.access_token) = None
    /\ VerifyAccessToken(last.result.access_token) # None

\* C30: the keys of the state store are tokens that get_authorization_url
\* drew itself.  A call that is given a state by its caller stores nothing,
\* and a callback that presents such a caller-made value, with a code and
\* without an error, is turned away with "Invalid state parameter".
C30_OnlyOwnStates ==
    /\ [](/\ DOMAIN _state_store \subseteq
                {TokenUrlsafe(n) : n \in 1..nextState}
          /\ CallerState \notin DOMAIN _state_store
          /\ (/\ last.op = "oauth_callback"
              /\ RouteCheck(last.arg.code, last.arg.error) = ""
              /\ last.arg.state = CallerState)
             => last.result = [error |-> "Invalid state parameter"])
    /\ [][(/\ served' = served + 1
           /\ last'.op = "get_authorization_url"
           /\ last'.arg.state # NoState)
          => /\ _state_store' = _state_store
             /\ nextState' = nextState]_vars

\* A callback that presented the state its caller had passed to
\* get_authorization_url, for a configured provider, was turned away.
C30_Witness ==
    /\ last.op = "oauth_callback"
    /\ last.arg.state = CallerState
    /\ last.arg.provider \in DOMAIN OAUTH_CONFIGS
    /\ last.result = [error |-> "Invalid state parameter"]
    /\ ChecksOf(CallerState).invalid >= 1
    /\ DOMAIN _state_store # {}

\* C29: with REFRESH_TOKEN_ROTATION off, refresh_tokens(R) leaves R's ledger
\* record as it was and returns a pair on every call for an R that has not
\* expired and that revoke_refresh_token has not revoked; with rotation on,
\* no refresh token yields a pair more than once.
C29_RotationSwitch ==
    /\ [][(/\ served' = served + 1
           /\ last'.op = "refresh_tokens"
           /\ ~tokenConfig.REFRESH_TOKEN_ROTATION
           /\ last'.arg \in OwnRefresh)
          => LET j == last'.arg.payload.jti
             IN /\ _refresh_token_store'[j] = _refresh_token_store[j]
                /\ (last'.arg.payload.exp >= now /\ j \notin revoked)
                   => last'.result # None
                /\ (last'.arg.payload.exp < now \/ j \in revoked)
                   => last'.result = None]_vars
    /\ [](tokenConfig.REFRESH_TOKEN_ROTATION
          => \A j \in DOMAIN calls : calls[j].ok <= 1)

\* With rotation off, refresh_tokens has just returned a pair for a refresh
\* token for the second time.
C29_Witness ==
    /\ ~tokenConfig.REFRESH_TOKEN_ROTATION
    /\ last.op = "refresh_tokens"
    /\ last.result # None
    /\ CallsOf(last.arg.payload.jti) = [ok |-> 2, invalid |-> 0]
    /\ ~_refresh_token_store[last.arg.payload.jti].revoked

\* C22: the URL that an adapter's get_authorization_url returns for a
\* login holds the client id, the redirect URI, response_type=code, a scope
\* and the state it was given, each as a query parameter.
C22_UrlHasAllParameters ==
    (/\ last.op \in {"OAuthService.get_authorization_url",
                      "WeChatOAuthService.get_authorization_url",
                      "AlipayOAuthService.get_authorization_url",
                      "QQOAuthService.get_authorization_url",
                      "DingTalkOAuthService.get_authorization_url"}
     /\ last.arg.state # NoState)
    => /\ "url" \in DOMAIN last.result
       /\ Contains(last.result.url,
                   <<"=">> \o QuotePlus(last.arg.client_id))
       /\ Contains(last.result.url,
                   <<"r","e","d","i","r","e","c","t","_","u","r","i",
                     "=">>
                   \o QuotePlus(last.arg.redirect_uri))
       /\ Contains(last.result.url,
                   <<"r","e","s","p","o","n","s","e","_","t","y","p",
                     "e","=","c","o","d","e">>)
       /\ Contains(last.result.url, <<"s","c","o","p","e","=">>)
       /\ Contains(last.result.url,
                   <<"s","t","a","t","e","=">> \o QuotePlus(last.arg.state))

\* text.split(sep)
RECURSIVE Split(_, _)
Split(text, sep) ==
    IF \A i \in 1..Len(text) : text[i] # sep THEN <<text>>
    ELSE LET at == CHOOSE i \in 1..Len(text) :
                     text[i] = sep /\ \A j \in 1..(i - 1) : text[j] # sep
         IN <<SubSeq(text, 1, at - 1)>>
            \o Split(SubSeq(text, at + 1, Len(text)), sep)

\* The key=value pieces of a signed string, and the name each piece opens
\* with.
Pieces(sign_string) ==
    IF sign_string = <<>> THEN <<>> ELSE Split(sign_string, "&")
NameOf(piece) == Split(piece, "=")[1]

\* The pieces are key=value renderings of the map's parameters `named`,
\* each of these exactly once, in the order of their names.
SignedOver(sign_string, params, named) ==
    LET pieces == Pieces(sign_string)
    IN /\ \A i \in 1..Len(pieces) :
            /\ NameOf(pieces[i]) \in named
            /\ pieces[i] = NameOf(pieces[i]) \o <<"=">>
                             \o params[NameOf(pieces[i])]
       /\ \A i, j \in 1..Len(pieces) :
            i < j => StrLess(NameOf(pieces[i]), NameOf(pieces[j]))
       /\ \A k \in named :
            Cardinality({i \in 1..Len(pieces) : NameOf(pieces[i]) = k}) = 1

\* C23 as stated: the string that is signed is the map's parameters sorted
\* by name, each rendered key=value and joined with '&', with every
\* parameter of the map in it exactly once.
C23_EveryParameterOnce ==
    last.op = "AlipayOAuthService._build_sign_string"
    => SignedOver(last.result.sign_string, last.arg.params,
                  DOMAIN last.arg.params)

\* C23: the string that is signed is the map's parameters that have a
\* non-empty value, sorted by name, each rendered key=value and joined with
\* '&', each of them exactly once; a parameter with an empty value is left
\* out of it.
C23_NonEmptyParametersOnce ==
    last.op = "AlipayOAuthService._build_sign_string"
    => SignedOver(last.result.sign_string, last.arg.params,
                  {k \in DOMAIN last.arg.params :
                     last.arg.params[k] # <<>>})

\* A map with an empty authorization code has been signed.
C23_Witness ==
    /\ last.op = "AlipayOAuthService._build_sign_string"
    /\ <<"c","o","d","e">> \in DOMAIN last.arg.params
    /\ last.arg.params[<<"c","o","d","e">>] = <<>>
    /\ last.arg.params[<<"a","p","p","_","i","d">>] # <<>>
    /\ Len(Pieces(last.result.sign_string)) = 7

\* An adapter call that went through to a token response: the lifetime the
\* provider reported (None when the response has none), the lifetime that
\* came out of the call, and the default of the provider family where the
\* adapter names one.
TokenCall ==
    \/ /\ last.op = "WeChatOAuthService.handle_callback"
       /\ ~Raised(last.result)
    \/ last.op = "AlipayOAuthService.handle_callback"
       /\ "alipay_system_oauth_token_response" \in DOMAIN last.arg.result
    \/ /\ last.op = "DingTalkOAuthService._ensure_app_token"
       /\ ~Raised(last.result)
       /\ last.result.requested
ReportedLifetime ==
    CASE last.op = "WeChatOAuthService.handle_callback" ->
            Get(last.arg.token_data, "expires_in", None)
      [] last.op = "AlipayOAuthService.handle_callback" ->
            Get(last.arg.result["alipay_system_oauth_token_response"],
                "expires_in", None)
      [] last.op = "DingTalkOAuthService._ensure_app_token" ->
            Get(last.arg.data, "expires_in", None)
ResultingLifetime ==
    CASE last.op = "WeChatOAuthService.handle_callback" ->
            last.result.value.expires_in
      [] last.op = "AlipayOAuthService.handle_callback" ->
            last.result.value.expires_in
      [] last.op = "DingTalkOAuthService._ensure_app_token" ->
            JInt(last.result.service._token_expires_at.int + 60 - Time)
FamilyDefaults ==
    [w \in {"WeChatOAuthService.handle_callback",
            "DingTalkOAuthService._ensure_app_token"} |-> JInt(7200)]

\* C24: a token response whose expires_in is 0 or missing gives the
\* provider family's default lifetime, and the lifetime that results from a
\* token response is never 0 or absent.
C24_LifetimeDefaulted ==
    TokenCall
    => /\ "int" \in DOMAIN ResultingLifetime
       /\ ResultingLifetime.int > 0
       /\ (ReportedLifetime \in {None, JInt(0)}
           /\ last.op \in DOMAIN FamilyDefaults)
          => ResultingLifetime = FamilyDefaults[last.op]

\* The error a provider's code-exchange response reports, None when it
\* reports none: WeChat's errcode and errmsg, the Alipay gateway's
\* error_response, the error and error_description of an OAuth 2.0 token
\* endpoint.
ReportedError ==
    CASE last.op = "WeChatOAuthService.handle_callback" ->
            IF ErrcodeSet(last.arg.token_data)
            THEN [code |-> last.arg.token_data["errcode"],
                  message |-> Get(last.arg.token_data, "errmsg", None)]
            ELSE None
      [] last.op = "AlipayOAuthService.handle_callback" ->
            IF "error_response" \in DOMAIN last.arg.result
            THEN [code |-> last.arg.result["error_response"]["code"],
                  message |-> last.arg.result["error_response"]["msg"]]
            ELSE None
      [] last.op = "OAuthService._exchange_code_for_token" ->
            IF "error" \in DOMAIN last.arg.response.json
            THEN [code |-> last.arg.response.json["error"],
                  message |->
                      Get(last.arg.response.json, "error_description",
                          None)]
            ELSE None

\* The exception holds the value as it came: as one of the values its
\* message was made of, or inside a response body that the message quotes
\* whole.
Carries(error, v) ==
    \E i \in 1..Len(error.args) :
        IF "text" \in DOMAIN error.args[i]
        THEN \E k \in DOMAIN error.args[i].text : error.args[i].text[k] = v
        ELSE error.args[i] = v

\* C25: when the provider's code-exchange response reports an error, the
\* exchange fails with an error that carries the provider's code and
\* message unchanged, and never returns a token response.
C25_ProviderErrorSurfaced ==
    (/\ last.op \in {"WeChatOAuthService.handle_callback",
                     "AlipayOAuthService.handle_callback",
                     "OAuthService._exchange_code_for_token"}
     /\ ReportedError # None)
    => /\ Raised(last.result)
       /\ Carries(last.result.error, ReportedError.code)
       /\ Carries(last.result.error, ReportedError.message)

\* An empty value: "" or [].
Empty(v) == v \in {JStr(""), JList(<<>>)}

\* C26: a WeChat user-info payload comes out with provider "wechat", the
\* subject id its openid, the display name its nickname and the avatar its
\* headimgurl; an optional field the payload does not have comes out
\* empty, not null.
C26_WeChatIdentity ==
    (/\ last.op = "WeChatOAuthService.handle_callback"
     /\ ~Raised(last.result)
     /\ "openid" \in DOMAIN last.arg.data)
    => /\ last.result.value.provider = JStr("wechat")
       /\ last.result.value.user_info.openid = last.arg.data["openid"]
       /\ \A field \in {"nickname", "headimgurl", "sex", "province", "city",
                        "country", "privilege", "unionid"} :
            IF field \in DOMAIN last.arg.data
            THEN last.result.value.user_info[field] = last.arg.data[field]
            ELSE Empty(last.result.value.user_info[field])

\* C31: handle_callback never fails with "Unknown OAuth provider": every
\* record of the state store names a configured provider, so a callback
\* that passed the state check and the provider comparison finds a
\* configuration.
C31_UnknownProviderUnreachable ==
    /\ \A state \in DOMAIN _state_store :
         _state_store[state].provider \in DOMAIN OAUTH_CONFIGS
    /\ last.op = "oauth_callback"
       => last.result # [error |-> "Unknown OAuth provider"]

\* A callback passed the state check and the provider comparison, found
\* its configuration and went on to the code exchange, while the state of
\* another login was still stored.
C31_Witness ==
    /\ last.op = "oauth_callback"
    /\ last.result = None
    /\ ConfigOf(last.arg.provider) # None
    /\ last.arg.state \notin DOMAIN _state_store
    /\ DOMAIN _state_store # {}
    /\ nextState = 2

\* C32: after a client-side refresh that went through, the refresh token
\* the client has stored is one the server still accepts.
C32_StoredRefreshTokenAccepted ==
    (/\ last.op = "on_refresh_response"
     /\ last.result.retry)
    => RefreshAccepts(userStore.refreshToken)

\* C33: every API request that got a 401 and went into the refresh cycle
\* is eventually resolved or rejected.
C33_RequestCompletes ==
    \A i \in 1..MaxApiRequests :
        (i <= Len(requests) /\ requests[i].pc = "refresh")
        ~> (i <= Len(requests) /\ requests[i].pc \in Completed)

\* The user message of the turn, and the replies to it, in the list: a
\* message carries the id of the timer its sendMessage call set.
UserAt(turn) ==
    {i \in 1..Len(messages) :
        /\ i > Len(INITIAL_MESSAGES)
        /\ messages[i].type = "user"
        /\ messages[i].id = turn}
RepliesAt(turn) ==
    {i \in 1..Len(messages) :
        /\ i > Len(INITIAL_MESSAGES)
        /\ messages[i].type = "companion"
        /\ messages[i].id = turn}

\* C34: a sendMessage call appends its user message at once and in the end
\* exactly one companion reply for it; the list only grows at its end, and
\* a user message stands before its reply.
C34_SendAndReply ==
    /\ [][/\ Len(messages') >= Len(messages)
          /\ SubSeq(messages', 1, Len(messages)) = messages
          /\ (last'.op = "handleSend" /\ Trim(last'.arg) # <<>>)
             => /\ Len(messages') = Len(messages) + 1
                /\ messages'[Len(messages')].type = "user"
                /\ messages'[Len(messages')].content = Trim(last'.arg)]_vars
    /\ [](\A turn \in 1..nextTimer :
            /\ Cardinality(UserAt(turn)) = 1
            /\ Cardinality(RepliesAt(turn)) <= 1
            /\ \A u \in UserAt(turn), r \in RepliesAt(turn) :
                 /\ u < r
                 /\ messages[r].content = ReplyContent(messages[u].content))
    /\ \A turn \in 1..MaxRequests :
         (nextTimer >= turn) ~> (Cardinality(RepliesAt(turn)) = 1)

\* Two messages were sent half a second apart, and both have their reply.
C34_Witness ==
    /\ Len(messages) = Len(INITIAL_MESSAGES) + 4
    /\ messages[Len(INITIAL_MESSAGES) + 1].type = "user"
    /\ messages[Len(INITIAL_MESSAGES) + 2].type = "user"
    /\ messages[Len(INITIAL_MESSAGES) + 3].type = "companion"
    /\ messages[Len(INITIAL_MESSAGES) + 4].type = "companion"
    /\ timers = <<>>

\* C35: isTyping is true exactly while a companion reply is pending, that
\* is, while a timer of sendMessage has not run yet.
C35_TypingWhilePending ==
    isTyping <=> \E id \in DOMAIN timers : timers[id].callback = "aiMessage"

\* C36: from the click that starts a save until that save reports success,
\* saveStatus is 'saving': while the outer timeout of a save is pending the
\* status is 'saving', whenever the clicks come.
C36_SavingUntilSuccess ==
    (\E id \in DOMAIN timers : timers[id].callback = "saved")
        => saveStatus = "saving"

\* The polling timers that are set.
PollTimers == {id \in DOMAIN timers : timers[id].callback = "checkLogin"}

\* C37: at most one polling timer is set at any time; none is set right
\* after a check that was answered confirmed or timeout, nor after unmount;
\* and a timer polls the state that is in the QR URL on display.
C37_OnePollingTimer ==
    /\ Cardinality(PollTimers) <= 1
    /\ (last.op = "checkLogin" /\ last.result \in {"confirmed", "timeout"})
          => PollTimers = {}
    /\ ~mounted => PollTimers = {}
    /\ \A id \in PollTimers :
          qrCode # None /\ timers[id].args.state = qrCode.params.state

\* The seconds a body of /gettoken gives its token, as the code reads it.
LifetimeOf(body) == Get(body, "expires_in", JInt(7200)).int

\* A handle_callback of DingTalk has run its two _ensure_app_token calls.
DingTalkCall ==
    /\ last.op = "DingTalkOAuthService.handle_callback"
    /\ Len(last.result.requested) = 2

\* An _ensure_app_token call that returns without fetching does so before
\* the token it holds expires: the first call holds the token fetched at 0,
\* the second that one or the one the first call fetched at time1.
FetchOnlySkippedWhileValid ==
    DingTalkCall =>
        /\ ~last.result.requested[1]
              => last.arg.time1 < 0 + LifetimeOf(last.arg.cached)
        /\ ~last.result.requested[2]
              => IF last.result.requested[1]
                 THEN last.arg.time2
                        < last.arg.time1 + LifetimeOf(last.arg.token_data)
                 ELSE last.arg.time2 < 0 + LifetimeOf(last.arg.cached)

\* C38: an _ensure_app_token that returns without fetching holds a token
\* that has not expired, and a handle_callback fetches no token exactly
\* when, at its second _ensure_app_token, the time is more than 120 seconds
\* before fetch time + expires_in (60 taken off when the token is stored
\* and 60 more when it is tested).
C38_NoFetchWithinMargin ==
    /\ FetchOnlySkippedWhileValid
    /\ DingTalkCall =>
          (last.result.requested = <<FALSE, FALSE>>
             <=> last.arg.time2 < 0 + LifetimeOf(last.arg.cached) - 120)

\* A callback ran with the clock moving between its two calls, no fetch.
C38_Witness ==
    /\ DingTalkCall
    /\ last.result.requested = <<FALSE, FALSE>>
    /\ last.arg.time1 < last.arg.time2
    /\ ~Raised(last.result.result)

\* C38 as stated: whenever the token passes the test at entry (the first
\* call does not fetch), the callback fetches no token at all.
C38_FreshAtEntryNoFetch ==
    /\ FetchOnlySkippedWhileValid
    /\ (DingTalkCall /\ ~last.result.requested[1])
          => ~last.result.requested[2]

====
